---- MODULE Spec2Model ----
(***************************************************************************)
(* RO.KeyDispatcher (trunk/ROPackage/python/RO/KeyDispatcher.py): the      *)
(* command and keyword dispatcher.  Every handler of the dispatcher runs   *)
(* to completion on the single event loop, so each one is one action.      *)
(* Handlers call each other (abortCmdByID -> executeCmd -> _replyCmdVar),  *)
(* so each method is an operator from a dispatcher state record to the     *)
(* dispatcher state record it leaves, and the actions apply them.          *)
(***************************************************************************)
EXTENDS Integers, FiniteSets, Sequences, TLC

VARIABLES
    isConnected,      \* KeyDispatcher._isConnected
    cmdVars,          \* the CmdVar objects, by object identity
    cmdDict,          \* KeyDispatcher.cmdDict: command ID -> CmdVar (0: no entry)
    userCmdIDGen,     \* index of KeyDispatcher.userCmdIDGen
    refreshCmdIDGen,  \* index of KeyDispatcher.refreshCmdIDGen
    checkCmdTimer,    \* KeyDispatcher._checkCmdTimer is pending
    checkRemCmdTimer, \* KeyDispatcher._checkRemCmdTimer and the iterator it holds
    refreshAllTimer,  \* KeyDispatcher._refreshAllTimer and its resetAll argument
    refreshNextTimer, \* KeyDispatcher._refreshNextTimer and the iterator it holds
    keyVarListDict,   \* KeyDispatcher.keyVarListDict: (actor, keyword) -> list of KeyVars
    refreshCmdDict,   \* KeyDispatcher.refreshCmdDict: (actor, refresh cmd) -> set of KeyVars
    isCurrent,        \* KeyVar.isCurrent() of every KeyVar
    pass,             \* the refresh commands issued in the refresh pass in progress
    sock,             \* the socket a TCPConnection holds (RO.Comm)
    conn              \* a TCPConnection (RO.Comm.TCPConnection)

vars == << isConnected, cmdVars, cmdDict, userCmdIDGen, refreshCmdIDGen,
           checkCmdTimer, checkRemCmdTimer, refreshAllTimer, refreshNextTimer,
           keyVarListDict, refreshCmdDict, isCurrent, pass, sock, conn >>

----------------------------------------------------------------------------
(* Bounds of the model. *)

\* Number of CmdVar objects alive at once.
NumCmdVars == 2

\* _CmdNumWrap is 1000 in the source (KeyDispatcher.py line 107).  The model
\* wraps the command IDs at a small value, so that wrap-around and the reuse
\* of an ID happen within the runs explored.
CmdNumWrap == 2

\* Longest list kept in one entry of keyVarListDict.
MaxKeyVarList == 1

----------------------------------------------------------------------------
(* Command IDs. *)

CmdVarIDs == 1 .. NumCmdVars

UserCmdIDs == 1 .. CmdNumWrap

RefreshCmdIDs == (CmdNumWrap + 1) .. (2 * CmdNumWrap)

AllCmdIDs == UserCmdIDs \cup RefreshCmdIDs

\* cmdVar.cmdID of a command that was never dispatched
None == 0

\* RO.Alg.IDGen(startVal, wrapVal).next(): the IDs startVal .. wrapVal in
\* turn, then startVal again.  << the ID, the generator's next index >>
IDGenNext(startVal, wrapVal, ind) ==
    << startVal + ind, (ind + 1) % (wrapVal - startVal + 1) >>

----------------------------------------------------------------------------
(* Messages. *)

\* RO.KeyVariable.DoneTypes and FailTypes, as far as the dispatcher uses
\* them: ":" is done, "f" is failed, "i" is an intermediate reply.
MsgTypes == {"i", ":", "f"}

DoneTypes == {":", "f"}

FailTypes == {"f"}

\* the commander of the dispatcher's own connection, and another one
OwnCmdr == "me"

Cmdrs == {"me", "other"}

----------------------------------------------------------------------------
(* KeyVars: the objects subscribers create. *)

KeyVars == { [actor |-> "env", keyword |-> "Temp",     refreshCmd |-> "refresh"],
             [actor |-> "env", keyword |-> "Pressure", refreshCmd |-> "refresh"],
             [actor |-> "env", keyword |-> "Humidity", refreshCmd |-> "status"] }

\* str.lower() on the keywords in use
Lower(keyword) ==
    CASE keyword = "Temp" -> "temp"
      [] keyword = "TEMP" -> "temp"
      [] keyword = "Pressure" -> "pressure"
      [] keyword = "Humidity" -> "humidity"
      [] OTHER -> keyword

\* keyVar.hasRefreshCmd()
HasRefreshCmd(keyVar) == keyVar.refreshCmd # ""

\* keyVar.getRefreshInfo()
GetRefreshInfo(keyVar) == << keyVar.actor, keyVar.refreshCmd >>

RefreshInfos == { GetRefreshInfo(kv) : kv \in {k \in KeyVars : HasRefreshCmd(k)} }

DictKeys == { << kv.actor, Lower(kv.keyword) >> : kv \in KeyVars }

----------------------------------------------------------------------------
(* CmdVar objects (RO.KeyVariable.CmdVar). *)

\* A CmdVar object that does not exist (yet, or any more).
NoCmdVar ==
    [ alloc       |-> FALSE,
      cmdID       |-> None,
      lastType    |-> "i",
      isRefresh   |-> FALSE,
      refreshInfo |-> << >>,
      timeLim     |-> FALSE,
      expired     |-> FALSE,
      abortCmdStr |-> FALSE,
      written     |-> FALSE,
      nTerm       |-> 0,
      lastData    |-> "",
      nWarn       |-> 0,
      warnKeys    |-> {} ]

\* CmdVar(cmdStr, actor, timeLim, abortCmdStr, isRefresh): a new command
NewCmdVar(isRefresh, refreshInfo, timeLim, abortCmdStr) ==
    [ NoCmdVar EXCEPT !.alloc = TRUE, !.isRefresh = isRefresh,
                      !.refreshInfo = refreshInfo, !.timeLim = timeLim,
                      !.abortCmdStr = abortCmdStr ]

\* cmdVar.isDone()
IsDone(cmdVar) == cmdVar.lastType \in DoneTypes

\* cmdVar.didFail()
DidFail(cmdVar) == cmdVar.lastType \in FailTypes

\* cmdVar._setStartInfo(dispatcher, cmdID): the ID and the start time; the
\* time limit, if any, starts to run
SetStartInfo(cmdVar, cmdID) ==
    [ cmdVar EXCEPT !.cmdID = cmdID, !.expired = FALSE ]

----------------------------------------------------------------------------
(* Timers (RO.Comm.Generic.Timer): one-shot, restartable.  A pending timer  *)
(* is its callback's arguments; start replaces what was pending.            *)

NoRemTimer == [ active |-> FALSE, cmdVarIter |-> {} ]

NoRefreshAllTimer == [ active |-> FALSE, resetAll |-> FALSE ]

NoRefreshNextTimer == [ active |-> FALSE, iter |-> {}, valid |-> TRUE ]

NoPass == [ running |-> FALSE, complete |-> FALSE,
            issued |-> [ info \in RefreshInfos |-> 0 ] ]

----------------------------------------------------------------------------
(* The dispatcher's state as one record, and the methods as operators.      *)

State ==
    [ isConnected      |-> isConnected,
      cmdVars          |-> cmdVars,
      cmdDict          |-> cmdDict,
      userCmdIDGen     |-> userCmdIDGen,
      refreshCmdIDGen  |-> refreshCmdIDGen,
      checkCmdTimer    |-> checkCmdTimer,
      checkRemCmdTimer |-> checkRemCmdTimer,
      refreshAllTimer  |-> refreshAllTimer,
      refreshNextTimer |-> refreshNextTimer,
      keyVarListDict   |-> keyVarListDict,
      refreshCmdDict   |-> refreshCmdDict,
      isCurrent        |-> isCurrent,
      pass             |-> pass ]

\* self.cmdDict.has_key(cmdID)
HasKey(s, cmdID) == cmdID \in AllCmdIDs /\ s.cmdDict[cmdID] # None

\* What is left of a CmdVar once it is done: the reply it got and what the
\* dispatcher logged for it; and, while an iterator of the timeout scan still
\* refers to it, its time limit, which the scan reads.
Finished(s, c) ==
    LET cmdVar == s.cmdVars[c]
        held == c \in s.checkRemCmdTimer.cmdVarIter
    IN  [ cmdVar EXCEPT !.timeLim = IF held THEN @ ELSE FALSE,
                        !.expired = IF held THEN @ ELSE FALSE,
                        !.abortCmdStr = FALSE ]

\* the assignment of a state record to the variables
Becomes(s) ==
    \E t \in {s} :
        /\ isConnected' = t.isConnected
        /\ cmdVars' = [ c \in CmdVarIDs |->
                          IF IsDone(t.cmdVars[c]) THEN Finished(t, c) ELSE t.cmdVars[c] ]
        /\ cmdDict' = t.cmdDict
        /\ userCmdIDGen' = t.userCmdIDGen
        /\ refreshCmdIDGen' = t.refreshCmdIDGen
        /\ checkCmdTimer' = t.checkCmdTimer
        /\ checkRemCmdTimer' = t.checkRemCmdTimer
        /\ refreshAllTimer' = t.refreshAllTimer
        /\ refreshNextTimer' = t.refreshNextTimer
        /\ keyVarListDict' = t.keyVarListDict
        /\ refreshCmdDict' = t.refreshCmdDict
        /\ isCurrent' = t.isCurrent
        /\ pass' = t.pass
        /\ UNCHANGED << sock, conn >>

\* A finished CmdVar that no iterator of the dispatcher refers to is
\* garbage: its object is free for the next command.
IsGarbage(s, c) ==
    /\ s.cmdVars[c].alloc
    /\ IsDone(s.cmdVars[c])
    /\ c \notin s.checkRemCmdTimer.cmdVarIter

\* Before the next handler runs, the finished CmdVars are collected; of one
\* an iterator still refers to, the scan can read that it is done, its ID
\* and its time limit.  The record of a refresh pass that is over is
\* dropped as well.
Collect(s) ==
    [ s EXCEPT !.pass = IF s.pass.running THEN @ ELSE NoPass,
               !.cmdVars = [ c \in CmdVarIDs |->
        IF IsGarbage(s, c) THEN NoCmdVar
        ELSE IF IsDone(s.cmdVars[c])
        THEN [ NoCmdVar EXCEPT !.alloc = TRUE, !.cmdID = s.cmdVars[c].cmdID,
                               !.lastType = s.cmdVars[c].lastType,
                               !.timeLim = s.cmdVars[c].timeLim,
                               !.expired = s.cmdVars[c].expired,
                               !.nTerm = s.cmdVars[c].nTerm ]
        ELSE s.cmdVars[c] ] ]

FreeCmdVars(s) == { c \in CmdVarIDs : ~ s.cmdVars[c].alloc }

\* the object of the next CmdVar constructed
NewCmdVarID(s) == CHOOSE c \in FreeCmdVars(s) : \A d \in FreeCmdVars(s) : c <= d

Min2(n) == IF n >= 2 THEN 2 ELSE n

\* cmdVar.reply(msgDict) on a command that is not done: the message type
\* becomes the command's last type, and the callbacks registered for that
\* type are called (the refresh callback is called by ReplyCmdVar)
Reply(cmdVar, msgType, dataStr) ==
    [ cmdVar EXCEPT !.lastType = msgType,
                    !.lastData = IF msgType \in DoneTypes THEN dataStr ELSE @ ]

\* _refreshCmdCallback as it would be if it logged nothing for a refresh
\* command that failed
RefreshCmdCallbackFailedSilent(s, c) ==
    LET cmdVar == s.cmdVars[c]
        keyVarSet == s.refreshCmdDict[cmdVar.refreshInfo]
        missing == { kv \in keyVarSet : ~ s.isCurrent[kv] }
        warned(keys) == [ s EXCEPT !.cmdVars[c].nWarn = Min2(@ + 1),
                                   !.cmdVars[c].warnKeys = keys ]
    IN  IF DidFail(cmdVar)
        THEN s
        ELSE IF keyVarSet # {}
        THEN IF missing # {}
             THEN warned({ kv.keyword : kv \in missing })
             ELSE s
        ELSE warned({})

\* KeyDispatcher._refreshCmdCallback(msgType, msgDict, cmdVar): one warning
\* if the command failed, if some KeyVar of its group is not current, or if
\* the group is empty
RefreshCmdCallback(s, c) ==
    LET cmdVar == s.cmdVars[c]
        keyVarSet == s.refreshCmdDict[cmdVar.refreshInfo]
        missing == { kv \in keyVarSet : ~ s.isCurrent[kv] }
        warned(keys) == [ s EXCEPT !.cmdVars[c].nWarn = Min2(@ + 1),
                                   !.cmdVars[c].warnKeys = keys ]
    IN  IF DidFail(cmdVar)
        THEN warned({ kv.keyword : kv \in keyVarSet })
        ELSE IF keyVarSet # {}
        THEN IF missing # {}
             THEN warned({ kv.keyword : kv \in missing })
             ELSE s
        ELSE warned({})

\* KeyDispatcher._replyCmdVar(cmdVar, msgDict): what it leaves when
\* cmdVar.reply returns.  nTerm counts the terminal messages handed to
\* cmdVar.reply.
ReplyCmdVar(s, c, msgType, dataStr) ==
    LET isDoneType == msgType \in DoneTypes
        s1 == [ s EXCEPT !.cmdVars[c] = Reply(@, msgType, dataStr),
                         !.cmdVars[c].nTerm = IF isDoneType THEN Min2(@ + 1) ELSE @ ]
        s2 == IF isDoneType /\ s1.cmdVars[c].isRefresh
              THEN RefreshCmdCallback(s1, c)
              ELSE s1
        cmdID == s2.cmdVars[c].cmdID
    IN  IF IsDone(s2.cmdVars[c]) /\ cmdID # None /\ HasKey(s2, cmdID)
        THEN [ s2 EXCEPT !.cmdDict[cmdID] = None ]
        ELSE s2

\* KeyDispatcher._replyCmdVar(cmdVar, msgDict) for a command that is already
\* done: the message is logged and handed to cmdVar.reply, which raises
ReplyCmdVarDone(s, c, msgType) ==
    [ s EXCEPT !.cmdVars[c].nTerm = IF msgType \in DoneTypes THEN Min2(@ + 1) ELSE @ ]

\* KeyDispatcher._connStateCallback(conn)
ConnStateCallback(s, connIsConnected) ==
    LET wasConnected == s.isConnected
        s1 == [ s EXCEPT !.isConnected = connIsConnected ]
    IN  IF wasConnected # connIsConnected
        THEN [ s1 EXCEPT !.refreshAllTimer = [ active |-> TRUE, resetAll |-> TRUE ] ]
        ELSE s1

\* The loop of executeCmd as it would be without its test of cmdDict: the
\* first ID drawn is taken, in use or not.
DrawCmdIDUnchecked(s, startVal, wrapVal, ind) ==
    IDGenNext(startVal, wrapVal, ind)

\* the loop of executeCmd that draws IDs until one is not a key of cmdDict:
\* << the ID, the generator's index after the draw >>
RECURSIVE DrawCmdID(_, _, _, _)
DrawCmdID(s, startVal, wrapVal, ind) ==
    LET drawn == IDGenNext(startVal, wrapVal, ind)
    IN  IF ~ HasKey(s, drawn[1]) THEN drawn
        ELSE DrawCmdID(s, startVal, wrapVal, drawn[2])

\* connection.writeLine(fullCmd): "ok", or it raises: "error" with the
\* connection as it was (the text cannot be encoded), "failed" when the
\* socket fails, which closes the connection before the error is raised
WriteResults == {"ok", "error", "failed"}

\* executeCmd as it would be without its test of the connection: the
\* command is registered and written whatever the connection's state.
ExecuteCmdUnconnected(s, c, newCmdVar, writeResult) ==
    LET s0 == [ s EXCEPT !.cmdVars[c] = newCmdVar ]
        drawn == DrawCmdID(s0, 1, CmdNumWrap, s0.userCmdIDGen)
    IN  [ s0 EXCEPT !.cmdDict[drawn[1]] = c,
                    !.cmdVars[c] = [ SetStartInfo(@, drawn[1]) EXCEPT !.written = TRUE ],
                    !.userCmdIDGen = drawn[2] ]

\* executeCmd as it would be if a failed write were only reported to the
\* log: the command stays registered.
ExecuteCmdWriteUnhandled(s, c, newCmdVar, writeResult) ==
    LET s0 == [ s EXCEPT !.cmdVars[c] = newCmdVar ]
    IN  IF ~ s0.isConnected
        THEN ReplyCmdVar(s0, c, "f", "Failed not connected")
        ELSE
        LET drawn == DrawCmdID(s0, 1, CmdNumWrap, s0.userCmdIDGen)
        IN  [ s0 EXCEPT !.cmdDict[drawn[1]] = c,
                        !.cmdVars[c] = SetStartInfo(@, drawn[1]),
                        !.userCmdIDGen = drawn[2] ]

\* KeyDispatcher.executeCmd(cmdVar), for the new CmdVar newCmdVar as object c
ExecuteCmd(s, c, newCmdVar, writeResult) ==
    LET s0 == [ s EXCEPT !.cmdVars[c] = newCmdVar ]
    IN  IF ~ s0.isConnected
        THEN ReplyCmdVar(s0, c, "f", "Failed not connected")
        ELSE
        LET drawn == IF newCmdVar.isRefresh
                     THEN DrawCmdID(s0, CmdNumWrap + 1, 2 * CmdNumWrap, s0.refreshCmdIDGen)
                     ELSE DrawCmdID(s0, 1, CmdNumWrap, s0.userCmdIDGen)
            cmdID == drawn[1]
            s1 == [ s0 EXCEPT !.cmdDict[cmdID] = c,
                              !.cmdVars[c] = SetStartInfo(@, cmdID),
                              !.refreshCmdIDGen = IF newCmdVar.isRefresh THEN drawn[2] ELSE @,
                              !.userCmdIDGen = IF newCmdVar.isRefresh THEN @ ELSE drawn[2] ]
        IN  CASE writeResult = "ok" ->
                   [ s1 EXCEPT !.cmdVars[c].written = TRUE ]
              [] writeResult = "error" ->
                   ReplyCmdVar(s1, c, "f", "WriteFailed")
              [] OTHER ->
                   ReplyCmdVar(ConnStateCallback(s1, FALSE), c, "f", "WriteFailed")

\* executeCmd returns: some ID of the command's range is not in use
MayExecuteCmd(s, isRefresh) ==
    \/ ~ s.isConnected
    \/ \E cmdID \in (IF isRefresh THEN RefreshCmdIDs ELSE UserCmdIDs) : ~ HasKey(s, cmdID)

\* abortCmdByID as it would be if it only sent the abort command and left
\* the reply to the hub: the original command stays as it is.
AbortCmdByIDNoReply(s, cmdID, c, writeResult) ==
    IF cmdID = None \/ ~ HasKey(s, cmdID) THEN s
    ELSE IF s.cmdVars[s.cmdDict[cmdID]].abortCmdStr /\ s.isConnected
    THEN ExecuteCmd(s, c, NewCmdVar(FALSE, << >>, FALSE, FALSE), writeResult)
    ELSE s

\* KeyDispatcher.abortCmdByID(cmdID); c is the object of the abort command
\* the method constructs
AbortCmdByID(s, cmdID, c, writeResult) ==
    IF cmdID = None \/ ~ HasKey(s, cmdID) THEN s
    ELSE
    LET a == s.cmdDict[cmdID]
        cmdVar == s.cmdVars[a]
        s1 == IF cmdVar.abortCmdStr /\ s.isConnected
              THEN ExecuteCmd(s, c, NewCmdVar(FALSE, << >>, FALSE, FALSE), writeResult)
              ELSE s
    IN  IF IsDone(cmdVar) THEN s
        ELSE ReplyCmdVar(s1, a, "f", "Aborted")

----------------------------------------------------------------------------
(* The timeout scan. *)

\* The test of _checkRemCmdTimeouts as it would be with the comparison of
\* the times the wrong way round: a time limit that has run out is not seen.
FailsBeforeTime(s, c) ==
    /\ HasKey(s, s.cmdVars[c].cmdID)
    /\ \/ ~ s.isConnected
       \/ s.cmdVars[c].timeLim /\ ~ s.cmdVars[c].expired

\* the test of _checkRemCmdTimeouts on one command of the iterator: the
\* command's ID is a key of cmdDict, and the dispatcher is not connected or
\* the command's time limit has run out
Fails(s, c) ==
    /\ HasKey(s, s.cmdVars[c].cmdID)
    /\ \/ ~ s.isConnected
       \/ s.cmdVars[c].timeLim /\ s.cmdVars[c].expired

\* _checkRemCmdTimeouts as it would be if it started _checkCmdTimer only
\* after a command was failed: a scan that finds nothing ends the scanning.
CheckRemCmdTimeoutsNoRestart(s, cmdVarIter, skipped, x) ==
    IF x = None
    THEN s
    ELSE [ ReplyCmdVar(s, x, "f", IF s.isConnected THEN "Timeout" ELSE "Aborted disconnected")
             EXCEPT !.checkRemCmdTimer = [ active |-> TRUE,
                                           cmdVarIter |-> cmdVarIter \ (skipped \cup {x}) ],
                    !.checkCmdTimer = TRUE ]

\* _checkRemCmdTimeouts as it would be if it did not look at the
\* connection: every command it fails is timed out.
CheckRemCmdTimeoutsAllTimeout(s, cmdVarIter, skipped, x) ==
    IF x = None
    THEN [ s EXCEPT !.checkCmdTimer = TRUE ]
    ELSE [ ReplyCmdVar(s, x, "f", "Timeout")
             EXCEPT !.checkRemCmdTimer = [ active |-> TRUE,
                                           cmdVarIter |-> cmdVarIter \ (skipped \cup {x}) ],
                    !.checkCmdTimer = TRUE ]

\* KeyDispatcher._checkRemCmdTimeouts(cmdVarIter).  The iterator hands out
\* the commands of a copy of cmdDict.values() in the dictionary's order,
\* which is any order: the call passes over the commands of skipped, none of
\* which fails, and stops at x, which does; x = None when the iterator runs
\* out.
CheckRemCmdTimeouts(s, cmdVarIter, skipped, x) ==
    IF x = None
    THEN [ s EXCEPT !.checkCmdTimer = TRUE ]
    ELSE
    LET s1 == IF ~ s.isConnected
              THEN [ s EXCEPT !.cmdVars[x].abortCmdStr = FALSE ]
              ELSE s
        dataStr == IF ~ s.isConnected THEN "Aborted disconnected" ELSE "Timeout"
        rest == cmdVarIter \ (skipped \cup {x})
    IN  IF IsDone(s1.cmdVars[x])
        THEN \* cmdVar.reply raises: caught, the scan is not resumed
             [ ReplyCmdVarDone(s1, x, "f") EXCEPT !.checkCmdTimer = TRUE ]
        ELSE [ ReplyCmdVar(s1, x, "f", dataStr) EXCEPT
                 !.checkRemCmdTimer = [ active |-> TRUE, cmdVarIter |-> rest ],
                 !.checkCmdTimer = TRUE ]

\* what one call of _checkRemCmdTimeouts may pass over and stop at
ScanStep(s, cmdVarIter, skipped, x) ==
    /\ skipped \subseteq cmdVarIter
    /\ \A y \in skipped : ~ Fails(s, y)
    /\ \/ x = None /\ skipped = cmdVarIter
       \/ x \in cmdVarIter \ skipped /\ Fails(s, x)

\* checkCmdTimeouts as it would be if it failed, in the one call, every
\* command of cmdDict that is due
CheckCmdTimeoutsWholeScan(s, skipped, x) ==
    LET s1 == [ s EXCEPT !.checkCmdTimer = TRUE, !.checkRemCmdTimer = NoRemTimer ]
        dataStr == IF ~ s.isConnected THEN "Aborted disconnected" ELSE "Timeout"
        RECURSIVE FailAll(_, _)
        FailAll(r, due) ==
            IF due = {} THEN r
            ELSE LET y == CHOOSE y \in due : TRUE
                 IN  FailAll(ReplyCmdVar(r, y, "f", dataStr), due \ {y})
    IN  FailAll(s1, { y \in CmdVarIDs : s.cmdVars[y].alloc /\ Fails(s, y) })

\* KeyDispatcher.checkCmdTimeouts()
CheckCmdTimeouts(s, skipped, x) ==
    LET s1 == [ s EXCEPT !.checkCmdTimer = FALSE, !.checkRemCmdTimer = NoRemTimer ]
        cmdVarIter == { s.cmdDict[cmdID] : cmdID \in { i \in AllCmdIDs : HasKey(s, i) } }
    IN  CheckRemCmdTimeouts(s1, cmdVarIter, skipped, x)

----------------------------------------------------------------------------
(* KeyVars and the refresh pass. *)

\* the KeyVars in the lists of keyVarListDict
Registered(s) ==
    { kv \in KeyVars : \E k \in DictKeys :
        \E i \in 1 .. Len(s.keyVarListDict[k]) : s.keyVarListDict[k][i] = kv }

\* KeyDispatcher._updateRefreshCmds()
UpdateRefreshCmds(s) ==
    [ s EXCEPT !.refreshCmdDict =
        [ info \in RefreshInfos |->
            { kv \in Registered(s) : HasRefreshCmd(kv) /\ GetRefreshInfo(kv) = info } ] ]

\* addKeyVar makes a new set for the refresh command of every KeyVar added
AddKeyVarNewSet(s, keyVar) ==
    LET dictKey == << keyVar.actor, Lower(keyVar.keyword) >>
        s1 == [ s EXCEPT !.keyVarListDict[dictKey] = Append(@, keyVar) ]
        refreshInfo == GetRefreshInfo(keyVar)
        s2 == [ s1 EXCEPT !.refreshCmdDict[refreshInfo] = {keyVar} ]
    IN  IF ~ HasRefreshCmd(keyVar) THEN s1
        ELSE IF s2.isConnected
        THEN [ s2 EXCEPT !.refreshAllTimer = [ active |-> TRUE, resetAll |-> FALSE ] ]
        ELSE s2

\* KeyDispatcher.addKeyVar(keyVar)
AddKeyVar(s, keyVar) ==
    LET dictKey == << keyVar.actor, Lower(keyVar.keyword) >>
        s1 == [ s EXCEPT !.keyVarListDict[dictKey] = Append(@, keyVar) ]
        refreshInfo == GetRefreshInfo(keyVar)
        isNewKey == s1.refreshCmdDict[refreshInfo] = {}
        s2 == [ s1 EXCEPT !.refreshCmdDict[refreshInfo] = @ \cup {keyVar},
                          \* a new key invalidates an iterator over the dictionary
                          !.refreshNextTimer.valid =
                              IF isNewKey /\ s1.refreshNextTimer.active THEN FALSE ELSE @ ]
    IN  IF ~ HasRefreshCmd(keyVar) THEN s1
        ELSE IF s2.isConnected
        THEN [ s2 EXCEPT !.refreshAllTimer = [ active |-> TRUE, resetAll |-> FALSE ] ]
        ELSE s2

\* KeyDispatcher.removeKeyVar(keyVar): its first statement reads
\* keyVar.keywd, and a KeyVar has no such attribute (the keyword is
\* keyVar.keyword, as addKeyVar reads it): AttributeError is raised before
\* anything is changed
RemoveKeyVar(s, keyVar) == s

\* the iterator a call of _sendNextRefreshCmd works on: a new one over the
\* rebuilt refreshCmdDict if isNew (the argument is None), else iter
RefreshIter(s, isNew, iter) ==
    IF isNew
    THEN { info \in RefreshInfos : UpdateRefreshCmds(s).refreshCmdDict[info] # {} }
    ELSE iter

\* _sendNextRefreshCmd as it would be if it resumed with a new iterator
\* instead of the one it was given: the item issued is issued again.
SendNextRefreshCmdSameItems(s, isNew, iter, valid, info, c, writeResult) ==
    IF ~ s.isConnected
    THEN [ s EXCEPT !.pass.running = FALSE ]
    ELSE
    LET s1 == IF isNew
              THEN [ UpdateRefreshCmds(s) EXCEPT !.pass = [ NoPass EXCEPT !.running = TRUE ] ]
              ELSE s
        items == RefreshIter(s, isNew, iter)
    IN  IF items = {}
        THEN [ s1 EXCEPT !.pass.running = FALSE, !.pass.complete = TRUE ]
        ELSE
        LET s2 == ExecuteCmd(s1, c, NewCmdVar(TRUE, info, TRUE, FALSE), writeResult)
        IN  [ s2 EXCEPT !.pass.issued[info] = Min2(@ + 1),
                        !.refreshNextTimer =
                            [ active |-> TRUE, iter |-> items, valid |-> TRUE ] ]

\* KeyDispatcher._sendNextRefreshCmd(refreshCmdItemIter): info is the item
\* the iterator hands out (any one left), c the object of the CmdVar made
SendNextRefreshCmd(s, isNew, iter, valid, info, c, writeResult) ==
    IF ~ s.isConnected
    THEN [ s EXCEPT !.pass.running = FALSE ]
    ELSE
    LET s1 == IF isNew
              THEN [ UpdateRefreshCmds(s) EXCEPT !.pass = [ NoPass EXCEPT !.running = TRUE ] ]
              ELSE s
        items == RefreshIter(s, isNew, iter)
    IN  IF ~ isNew /\ ~ valid
        THEN \* the dictionary changed size: next() raises RuntimeError
             [ s1 EXCEPT !.pass.running = FALSE ]
        ELSE IF items = {}
        THEN \* StopIteration
             [ s1 EXCEPT !.pass.running = FALSE, !.pass.complete = TRUE ]
        ELSE
        LET s2 == ExecuteCmd(s1, c, NewCmdVar(TRUE, info, TRUE, FALSE), writeResult)
        IN  [ s2 EXCEPT !.pass.issued[info] = Min2(@ + 1),
                        !.refreshNextTimer =
                            [ active |-> TRUE, iter |-> items \ {info}, valid |-> TRUE ] ]

\* KeyDispatcher.refreshAllVar(resetAll)
RefreshAllVar(s, resetAll, info, c, writeResult) ==
    LET s1 == [ s EXCEPT !.refreshAllTimer = NoRefreshAllTimer,
                         !.refreshNextTimer = NoRefreshNextTimer,
                         !.pass.running = FALSE,
                         !.isCurrent = IF resetAll
                                       THEN [ kv \in KeyVars |->
                                                IF kv \in Registered(s) THEN FALSE ELSE @[kv] ]
                                       ELSE @ ]
    IN  SendNextRefreshCmd(s1, TRUE, {}, TRUE, info, c, writeResult)

----------------------------------------------------------------------------
(* Messages from the hub. *)

\* the actor whose KeyVars a message from actor sets: "keys.<actor>" is <actor>
KeyActor(actor) == IF actor = "keys.env" THEN "env" ELSE actor

\* the actor and the keywords of the data of the messages dispatched
MsgData == { << "env", {} >>, << "env", {"TEMP"} >>, << "keys.env", {"temp", "Pressure"} >>,
             << "env", {"Humidity"} >>, << "other", {"Temp"} >> }

\* dispatch does not catch what keyVar.set raises: the first set that
\* raises ends dispatch
DispatchSetUncaught(s, cmdr, cmdID, actor, msgType, keywords, raising) ==
    LET keys == { << KeyActor(actor), Lower(keywd) >> : keywd \in keywords }
        isSet(kv) == \E k \in keys \cap DictKeys :
                        \E i \in 1 .. Len(s.keyVarListDict[k]) : s.keyVarListDict[k][i] = kv
        s1 == [ s EXCEPT !.isCurrent = [ kv \in KeyVars |-> IF isSet(kv) THEN TRUE ELSE @[kv] ] ]
    IN  IF \E kv \in raising : isSet(kv) THEN s
        ELSE IF cmdr = OwnCmdr /\ HasKey(s1, cmdID)
        THEN IF IsDone(s1.cmdVars[s1.cmdDict[cmdID]])
             THEN ReplyCmdVarDone(s1, s1.cmdDict[cmdID], msgType)
             ELSE ReplyCmdVar(s1, s1.cmdDict[cmdID], msgType, "hub")
        ELSE s1

\* KeyDispatcher.dispatch(msgDict) when set of the KeyVars in raising
\* raises an exception, which leaves such a KeyVar as it was
DispatchRaising(s, cmdr, cmdID, actor, msgType, keywords, raising) ==
    LET keys == { << KeyActor(actor), Lower(keywd) >> : keywd \in keywords }
        isSet(kv) == \E k \in keys \cap DictKeys :
                        \E i \in 1 .. Len(s.keyVarListDict[k]) : s.keyVarListDict[k][i] = kv
        s1 == [ s EXCEPT !.isCurrent = [ kv \in KeyVars |->
                                           IF isSet(kv) /\ kv \notin raising THEN TRUE ELSE @[kv] ] ]
    IN  IF cmdr = OwnCmdr /\ HasKey(s1, cmdID)
        THEN IF IsDone(s1.cmdVars[s1.cmdDict[cmdID]])
             THEN ReplyCmdVarDone(s1, s1.cmdDict[cmdID], msgType)
             ELSE ReplyCmdVar(s1, s1.cmdDict[cmdID], msgType, "hub")
        ELSE s1

\* dispatch as it would be without its test of the commander: the message
\* of any commander is handed to the command that has its command ID
DispatchAnyCmdr(s, cmdr, cmdID, actor, msgType, keywords) ==
    LET keys == { << KeyActor(actor), Lower(keywd) >> : keywd \in keywords }
        isSet(kv) == \E k \in keys \cap DictKeys :
                        \E i \in 1 .. Len(s.keyVarListDict[k]) : s.keyVarListDict[k][i] = kv
        s1 == [ s EXCEPT !.isCurrent = [ kv \in KeyVars |-> IF isSet(kv) THEN TRUE ELSE @[kv] ] ]
    IN  IF HasKey(s1, cmdID)
        THEN IF IsDone(s1.cmdVars[s1.cmdDict[cmdID]])
             THEN ReplyCmdVarDone(s1, s1.cmdDict[cmdID], msgType)
             ELSE ReplyCmdVar(s1, s1.cmdDict[cmdID], msgType, "hub")
        ELSE s1

\* KeyDispatcher.dispatch(msgDict)
Dispatch(s, cmdr, cmdID, actor, msgType, keywords) ==
    LET keys == { << KeyActor(actor), Lower(keywd) >> : keywd \in keywords }
        isSet(kv) == \E k \in keys \cap DictKeys :
                        \E i \in 1 .. Len(s.keyVarListDict[k]) : s.keyVarListDict[k][i] = kv
        s1 == [ s EXCEPT !.isCurrent = [ kv \in KeyVars |-> IF isSet(kv) THEN TRUE ELSE @[kv] ] ]
    IN  IF cmdr = OwnCmdr /\ HasKey(s1, cmdID)
        THEN IF IsDone(s1.cmdVars[s1.cmdDict[cmdID]])
             THEN ReplyCmdVarDone(s1, s1.cmdDict[cmdID], msgType)
             ELSE ReplyCmdVar(s1, s1.cmdDict[cmdID], msgType, "hub")
        ELSE s1

----------------------------------------------------------------------------
(* RO.Comm: the sockets (BaseSocket.py, TkSocket.py, TwistedSocket.py).     *)
(* A socket is a record; every method is an operator from the socket to    *)
(* the socket it leaves.  The fields calls, teardown and raised record     *)
(* what the operation in progress did: the states handed to the state      *)
(* callback, the transport teardowns started and the error it raised.      *)

\* Most times one KeyVar is added.
MaxSameKeyVar == 2

\* Most characters a socket has put on the wire or holds queued.
MaxSent == 4

\* TkSocket.TCPSocket, TwistedSocket.TCPSocket of ROPackage and of trunk
SockKinds == { "Tk", "Twisted", "TwistedTrunk" }

\* reason = None: leave the reason alone
ReasonNone == "<None>"

Reasons == { "", "bye", "bad" }

CRLF == << "\r", "\n" >>

NoError == [ type |-> "", msg |-> "" ]

RuntimeError(msg) == [ type |-> "RuntimeError", msg |-> msg ]

\* NullSocket(): always Closed, no state callback
NullSocket ==
    [ kind        |-> "Null",
      state       |-> "Closed",
      reason      |-> "This is an instance of NullSocket",
      hasCallback |-> FALSE,    \* _stateCallbackList holds the owner's callback
      added       |-> << >>,    \* the callbacks addStateCallback has put after it
      protocol    |-> FALSE,    \* Twisted: _protocol is not None
      attempt     |-> FALSE,    \* the connection attempt is in progress
      losing      |-> FALSE,    \* Twisted: transport.loseConnection() was called
      timer       |-> FALSE,    \* Twisted: _connectTimer is pending
      queue       |-> << >>,    \* Tk: characters written before the connection was made
      sent        |-> << >>,    \* the characters put on the wire
      buffer      |-> << >>,    \* the characters received and not yet read
      readTimers  |-> 0,        \* pending Timer(0.000001, _readCallback) calls
      recvd       |-> << >>,    \* all the characters received
      op          |-> [ name |-> "init", isOK |-> TRUE, reason |-> "" ],   \* the last operation
      calls       |-> << >>,
      invoked     |-> << >>,    \* for each _setState, the callbacks it called, in order
      teardown    |-> 0,
      raised      |-> NoError ]

\* the record of an operation starts empty
Fresh(k) == [ k EXCEPT !.calls = << >>, !.invoked = << >>, !.teardown = 0, !.raised = NoError ]

SockIsDone(k) == k.state \in { "Closed", "Failed" }

SockIsReady(k) == k.state = "Connected"

\* Most state callbacks a client registers on one object.
MaxCallbacks == 2

\* _stateCallbackList: the callback given to the constructor comes first
StateCallbackList(k) == (IF k.hasCallback THEN << "owner" >> ELSE << >>) \o k.added

\* BaseSocket._clearCallbacks and its overrides
ClearCallbacks(k) ==
    [ k EXCEPT !.hasCallback = FALSE,
               !.added = << >>,
               !.attempt = FALSE,
               !.protocol = FALSE,
               !.losing = FALSE ]

\* _setState does not test isDone
SockSetStateDone(k, newState, reason) ==
    LET newReason == IF reason = ReasonNone THEN k.reason ELSE reason
        k1 == [ k EXCEPT !.state = newState,
                         !.reason = newReason,
                         !.calls = IF k.hasCallback
                                   THEN Append(@, << newState, newReason >>)
                                   ELSE @,
                         !.invoked = Append(@, StateCallbackList(k)) ]
        k2 == IF SockIsDone(k1) THEN ClearCallbacks(k1) ELSE k1
    IN  IF k.kind # "Tk" /\ (SockIsReady(k2) \/ SockIsDone(k2))
        THEN [ k2 EXCEPT !.timer = FALSE ]
        ELSE k2

\* Base._setState, with TwistedSocket.Socket._setState: the callback is
\* called with the new state and a socket that is done drops its callbacks
SockSetState(k, newState, reason) ==
    IF SockIsDone(k)
    THEN [ k EXCEPT !.raised = RuntimeError("Already done; cannot change state") ]
    ELSE LET newReason == IF reason = ReasonNone THEN k.reason ELSE reason
             k1 == [ k EXCEPT !.state = newState,
                              !.reason = newReason,
                              !.calls = IF k.hasCallback
                                        THEN Append(@, << newState, newReason >>)
                                        ELSE @,
                              !.invoked = Append(@, StateCallbackList(k)) ]
             k2 == IF SockIsDone(k1) THEN ClearCallbacks(k1) ELSE k1
         IN  IF k.kind # "Tk" /\ (SockIsReady(k2) \/ SockIsDone(k2))
             THEN [ k2 EXCEPT !.timer = FALSE ]
             ELSE k2

\* Socket._connectionLost of TwistedSocket
ConnectionLost(k, reason) ==
    IF k.state = "Closing"
    THEN SockSetState(k, "Closed", reason)
    ELSE SockSetState(k, "Failed", reason)

\* Socket._connectionMade of TwistedSocket
ConnectionMade(k) ==
    SockSetState([ k EXCEPT !.protocol = TRUE, !.attempt = FALSE ], "Connected", ReasonNone)

\* _basicClose of the three sockets
BasicClose(k) ==
    CASE k.kind = "Tk" ->
           SockSetState([ k EXCEPT !.teardown = @ + 1, !.attempt = FALSE, !.queue = << >> ],
                        IF k.state = "Closing" THEN "Closed" ELSE "Failed", ReasonNone)
      [] k.kind = "Twisted" ->
           IF k.protocol
           THEN [ k EXCEPT !.teardown = @ + 1, !.losing = TRUE ]
           ELSE k
      [] k.kind = "TwistedTrunk" ->
           IF k.protocol
           THEN [ k EXCEPT !.teardown = @ + 1, !.losing = TRUE ]
           ELSE IF k.attempt
                THEN ConnectionLost([ k EXCEPT !.teardown = @ + 1, !.attempt = FALSE ],
                                    "cancelled")
                ELSE k
      [] OTHER -> [ k EXCEPT !.raised = [ type |-> "NotImplementedError", msg |-> "" ] ]

\* close does not test isDone
SockCloseDone(k, isOK, reason) ==
    BasicClose([ k EXCEPT !.state = IF isOK THEN "Closing" ELSE "Failing",
                          !.reason = IF reason = ReasonNone THEN @ ELSE reason ])

\* BaseSocket.close
SockClose(k, isOK, reason) ==
    IF SockIsDone(k)
    THEN k
    ELSE BasicClose(SockSetState(k, IF isOK THEN "Closing" ELSE "Failing", reason))

\* Socket._connectTimeout of TwistedSocket
ConnectTimeout(k) ==
    IF ~ SockIsReady(k) \/ SockIsDone(k)
    THEN SockClose([ k EXCEPT !.timer = FALSE ], FALSE, "timeout")
    ELSE [ k EXCEPT !.timer = FALSE ]

\* TCPSocket._checkSocket of TkSocket, given what _TkSocketWrapper.isOKReason
\* returns: << the socket it leaves, the value it returns >>
CheckSocket(k, isOK, errStr) ==
    IF SockIsDone(k) THEN << k, FALSE >>
    ELSE IF errStr # "" THEN << SockClose(k, isOK, errStr), FALSE >>
    ELSE << k, TRUE >>

\* TCPSocket._doConnect of TkSocket: the queued characters are on the wire
DoConnect(k, isOK, errStr) ==
    LET res == CheckSocket(k, isOK, errStr)
    IN  IF res[2]
        THEN SockSetState([ k EXCEPT !.attempt = FALSE, !.sent = @ \o k.queue, !.queue = << >> ],
                          "Connected", ReasonNone)
        ELSE res[1]

\* the constructors of the TCPSockets: the connection attempt is started
NewSocket(kind, hasCallback, timeLim, isOK, errStr) ==
    LET k == SockSetState([ NullSocket EXCEPT !.kind = kind,
                                              !.state = "Connected",
                                              !.reason = "",
                                              !.hasCallback = hasCallback,
                                              !.attempt = TRUE,
                                              !.timer = (kind # "Tk" /\ timeLim) ],
                          "Connecting", ReasonNone)
    IN  IF kind = "Tk" THEN CheckSocket(k, isOK, errStr)[1] ELSE k

\* write does not test the state of a Twisted socket
WriteUnchecked(k, data, put, isOK, errStr) ==
    CASE k.kind = "Null" ->
           [ k EXCEPT !.raised = RuntimeError("Cannot write to null socket") ]
      [] k.kind = "Tk" ->
           IF k.state \notin { "Connected", "Connecting" }
           THEN [ k EXCEPT !.raised = RuntimeError("not connected") ]
           ELSE [ k EXCEPT !.sent = @ \o data ]
      [] OTHER -> [ k EXCEPT !.sent = @ \o data ]

\* write of the three sockets and of NullSocket.  For TkSocket put tells
\* whether the channel took the data (undefined when the channel has an
\* error) and isOK, errStr are what isOKReason returns in _assertConn.
Write(k, data, put, isOK, errStr) ==
    CASE k.kind = "Null" ->
           [ k EXCEPT !.raised = RuntimeError("Cannot write to null socket") ]
      [] k.kind = "Tk" ->
           IF k.state \notin { "Connected", "Connecting" }
           THEN [ k EXCEPT !.raised = RuntimeError("not connected") ]
           ELSE LET k1 == IF ~ put THEN k
                          ELSE IF k.state = "Connecting"
                               THEN [ k EXCEPT !.queue = @ \o data ]
                               ELSE [ k EXCEPT !.sent = @ \o data ]
                    res == CheckSocket(k1, isOK, errStr)
                IN  IF res[2]
                    THEN res[1]
                    ELSE [ res[1] EXCEPT !.raised = RuntimeError("not connected") ]
      [] OTHER ->
           IF ~ SockIsReady(k)
           THEN [ k EXCEPT !.raised = RuntimeError("not connected") ]
           ELSE [ k EXCEPT !.sent = @ \o data ]

\* writeLine of the three sockets and of NullSocket
WriteLine(k, data, put, isOK, errStr) ==
    CASE k.kind = "Null" ->
           [ k EXCEPT !.raised = RuntimeError("Cannot writeLine to null socket") ]
      [] k.kind = "Tk" -> Write(k, data \o CRLF, put, isOK, errStr)
      [] OTHER ->
           IF ~ SockIsReady(k)
           THEN [ k EXCEPT !.raised = RuntimeError("not connected") ]
           ELSE Write(k, data \o CRLF, put, isOK, errStr)

\* lineEndPattern.split(buffer, 1): the first line terminator of a buffer,
\* 0 if it holds none
RECURSIVE FirstEnd(_, _)
FirstEnd(buffer, i) ==
    IF i > Len(buffer) THEN 0
    ELSE IF buffer[i] \in { "\r", "\n" } THEN i
    ELSE FirstEnd(buffer, i + 1)

\* readLine of TkSocket and TwistedSocket:
\* [ the socket it leaves, a line was returned, the line ]
ReadLine(k) ==
    LET i == FirstEnd(k.buffer, 1)
    IN  IF k.kind = "Null"
        THEN [ sock |-> [ k EXCEPT !.raised = RuntimeError("Cannot readLine from null socket") ],
               found |-> FALSE, line |-> << >> ]
        ELSE IF k.kind # "Tk" /\ ~ SockIsReady(k)
        THEN [ sock |-> [ k EXCEPT !.raised = RuntimeError("not connected") ],
               found |-> FALSE, line |-> << >> ]
        ELSE IF i = 0
        THEN [ sock |-> k, found |-> FALSE, line |-> << >> ]
        ELSE LET endLen == IF k.buffer[i] = "\r" /\ i < Len(k.buffer) /\ k.buffer[i + 1] = "\n"
                           THEN 2 ELSE 1      \* "\r\n" is tried first
                 rest == SubSeq(k.buffer, i + endLen, Len(k.buffer))
             IN  [ sock  |-> [ k EXCEPT !.buffer = rest,
                                        !.readTimers = IF rest # << >> THEN @ + 1 ELSE @ ],
                   found |-> TRUE,
                   line  |-> SubSeq(k.buffer, 1, i - 1) ]

----------------------------------------------------------------------------
(* RO.Comm.TCPConnection: a connection and the socket it holds are a       *)
(* record [conn, sock]; every method is an operator on it.                 *)

\* a TCPConnection has two user read callbacks
UserReadCallbacks == { 1, 2 }

\* TCPConnection.__init__: Disconnected, holding a NullSocket
NewConnection(host, auth) ==
    [ conn |-> [ state        |-> "Disconnected",
                 reason       |-> "",
                 host         |-> host,     \* "": None
                 auth         |-> auth,     \* an authReadCallback was given
                 locConnected |-> IF auth THEN "Authorizing" ELSE "Connected",
                 currRead     |-> "none",   \* _currReadCallbacks: none, the auth or the user callbacks
                 toAuth       |-> << >>,    \* the data the auth callback has received
                 toUser       |-> [ cb \in UserReadCallbacks |-> << >> ],
                 stateCallbacks |-> << >>,  \* _stateCallbacks
                 calls        |-> << >>,    \* the states handed to the state callbacks
                 invoked      |-> << >>,    \* for each change of state, the callbacks called
                 raised       |-> NoError,
                 prev         |-> NullSocket ],
                                            \* the socket connect() has discarded
      sock |-> NullSocket ]

\* _localSocketStateDict
LocalState(c, sockState) ==
    CASE sockState = "Connecting" -> "Connecting"
      [] sockState = "Connected"  -> c.locConnected
      [] sockState = "Closing"    -> "Disconnecting"
      [] sockState = "Failing"    -> "Failing"
      [] sockState = "Closed"     -> "Disconnected"
      [] sockState = "Failed"     -> "Failed"

\* for stateCallback in self._stateCallbacks: stateCallback(self), the
\* callbacks called: the loop ends at the first one that raises
RECURSIVE CalledUntilRaise(_)
CalledUntilRaise(callbacks) ==
    IF callbacks = << >> THEN << >>
    ELSE IF Head(callbacks) = "x" THEN << Head(callbacks) >>
    ELSE << Head(callbacks) >> \o CalledUntilRaise(Tail(callbacks))

\* TCPConnection._setState
ConnSetState(c, newState, reason) ==
    LET c1 == [ c EXCEPT !.state = newState,
                         !.reason = IF reason = ReasonNone THEN @ ELSE reason ]
    IN  IF << c.state, c.reason >> # << c1.state, c1.reason >>
        THEN [ c1 EXCEPT !.calls = Append(@, << c1.state, c1.reason >>),
                         !.invoked = Append(@, CalledUntilRaise(c.stateCallbacks)) ]
        ELSE c1

\* TCPConnection._sockStateCallback, for each call the socket has made
RECURSIVE SockStateCallback(_, _)
SockStateCallback(c, calls) ==
    IF calls = << >> THEN c
    ELSE SockStateCallback(ConnSetState(c, LocalState(c, Head(calls)[1]), Head(calls)[2]),
                           Tail(calls))

\* the connection after an operation that left its socket as k
Owner(w, k) == [ conn |-> SockStateCallback(w.conn, k.calls), sock |-> k ]

\* TCPConnection.isConnected: the state is one of _ConnectedStates
ConnIsConnected(c) == c.state \in { "Connected" }

\* isDone is false of a connection that is Connected
ConnIsDoneUnlessConnected(c) == c.state \in { "Disconnected", "Failed" }

\* TCPConnection.isDone: the state is one of _DoneStates
ConnIsDone(c) == c.state \in { "Connected", "Disconnected", "Failed" }

\* TCPConnection.mayConnect
MayConnect(c) == c.state \notin { "Connected", "Connecting", "Authorizing" }

\* TCPConnection._setRead
SetRead(c, forAuth) == [ c EXCEPT !.currRead = IF forAuth THEN "auth" ELSE "user" ]

\* the socket connect() has replaced: the connection holds it no more; its
\* transport, its buffer and its pending read timers live on
Discarded(k) ==
    [ Fresh(k) EXCEPT !.sent = << >>, !.recvd = << >>, !.queue = << >>, !.op = NullSocket.op,
                      !.reason = "", !.timer = FALSE,
                      !.buffer = IF k.readTimers = 0 THEN << >> ELSE @ ]

\* TCPConnection.connect once its arguments are accepted: the old socket
\* is detached and closed and a new one is made
Install(w, host, kind, timeLim, isOK, errStr) ==
    LET c1  == [ w.conn EXCEPT !.host = IF host # "" THEN host ELSE @ ]
        old == [ w.sock EXCEPT !.hasCallback = FALSE, !.added = << >> ]
        closed == IF SockIsDone(old) THEN old ELSE SockClose(old, TRUE, ReasonNone)
        new == NewSocket(kind, TRUE, timeLim, isOK, errStr)
        c2  == SockStateCallback(c1, new.calls)
    IN  [ conn |-> SetRead([ c2 EXCEPT !.locConnected = IF c2.auth THEN "Authorizing" ELSE "Connected",
                                       !.prev = Discarded(closed) ],
                           c2.auth),
          sock |-> new ]

\* connect does not test mayConnect
ConnectAnyState(w, host, kind, timeLim, isOK, errStr) ==
    Install(w, host, kind, timeLim, isOK, errStr)

\* TCPConnection.connect; kind is the framework chosen in RO.Comm.Generic
Connect(w, host, kind, timeLim, isOK, errStr) ==
    IF ~ MayConnect(w.conn)
    THEN [ w EXCEPT !.conn.raised =
                        RuntimeError("Cannot connect: already connecting or connected") ]
    ELSE IF host = "" /\ w.conn.host = ""
    THEN [ w EXCEPT !.conn.raised = RuntimeError("Cannot connect: no host specified") ]
    ELSE Install(w, host, kind, timeLim, isOK, errStr)

\* TCPConnection.disconnect
Disconnect(w, isOK, reason) == Owner(w, SockClose(w.sock, isOK, reason))

\* _authDone leaves the read callbacks as they are
AuthDoneKeepsRead(w, msg) ==
    [ w EXCEPT !.conn = ConnSetState(w.conn, "Connected", msg) ]

\* TCPConnection._authDone
AuthDone(w, msg) ==
    [ w EXCEPT !.conn = ConnSetState(SetRead(w.conn, FALSE), "Connected", msg) ]

\* for subr in self._currReadCallbacks: subr(sock, dataRead); verdict is
\* what the auth callback does with the line it is given: it waits for
\* more, calls _authDone or calls disconnect(False, reason)
CurrReadCallbacks(w, line, verdict) ==
    CASE w.conn.currRead = "auth" ->
           LET w2 == [ w EXCEPT !.conn.toAuth = Append(@, line) ]
           IN  CASE verdict = "ok"   -> AuthDone(w2, "")
                 [] verdict = "fail" -> Disconnect(w2, FALSE, "bad")
                 [] OTHER            -> w2
      [] w.conn.currRead = "user" ->
           [ w EXCEPT !.conn.toUser = [ cb \in UserReadCallbacks |-> Append(@[cb], line) ] ]
      [] OTHER -> w

\* TCPConnection._sockReadLineCallback called by the socket the connection
\* holds
SockReadLineCallback(w, verdict) ==
    LET r  == ReadLine(w.sock)
        w1 == [ w EXCEPT !.sock = r.sock ]
    IN  IF ~ r.found THEN w1 ELSE CurrReadCallbacks(w1, r.line, verdict)

\* TCPConnection._sockReadLineCallback called by the socket connect() has
\* replaced: sock is the caller, self._sock another socket
PrevSockReadLineCallback(w, verdict) ==
    LET r  == ReadLine(w.conn.prev)
        w1 == [ w EXCEPT !.conn.prev = r.sock ]
    IN  IF ~ r.found THEN w1 ELSE CurrReadCallbacks(w1, r.line, verdict)

----------------------------------------------------------------------------
(* The state after KeyDispatcher.__init__ and the actions.                  *)

\* __init__: nothing is registered; refreshAllVar() found no KeyVar and
\* checkCmdTimeouts() no command, and left _checkCmdTimer pending.  The
\* connection given may be connected or not.
Init ==
    /\ isConnected \in BOOLEAN
    /\ cmdVars = [ c \in CmdVarIDs |-> NoCmdVar ]
    /\ cmdDict = [ cmdID \in AllCmdIDs |-> None ]
    /\ userCmdIDGen = 0
    /\ refreshCmdIDGen = 0
    /\ checkCmdTimer = TRUE
    /\ checkRemCmdTimer = NoRemTimer
    /\ refreshAllTimer = NoRefreshAllTimer
    /\ refreshNextTimer = NoRefreshNextTimer
    /\ keyVarListDict = [ k \in DictKeys |-> << >> ]
    /\ refreshCmdDict = [ info \in RefreshInfos |-> {} ]
    /\ isCurrent = [ kv \in KeyVars |-> FALSE ]
    /\ pass = NoPass
    /\ sock = NullSocket
    /\ conn = NewConnection("", FALSE).conn

\* In every action s is the state the handler starts in.

\* a caller passes a new CmdVar to executeCmd
ExecuteCmdCalled(timeLim, abortCmdStr, writeResult) ==
    \E s \in {Collect(State)} :
        /\ FreeCmdVars(s) # {}
        /\ MayExecuteCmd(s, FALSE)
        /\ Becomes(ExecuteCmd(s, NewCmdVarID(s),
                              NewCmdVar(FALSE, << >>, timeLim, abortCmdStr), writeResult))

DoExecuteCmd ==
    \E timeLim \in BOOLEAN, abortCmdStr \in BOOLEAN, writeResult \in WriteResults :
        ExecuteCmdCalled(timeLim, abortCmdStr, writeResult)

\* a caller aborts the command of some ID; writeResult is what the write
\* of the abort command, if the call executes one, comes to
AbortCmdByIDCalled(cmdID, writeResult) ==
    \E s \in {Collect(State)} :
        IF /\ HasKey(s, cmdID)
           /\ ~ IsDone(s.cmdVars[s.cmdDict[cmdID]])
           /\ s.cmdVars[s.cmdDict[cmdID]].abortCmdStr
           /\ s.isConnected
        THEN /\ FreeCmdVars(s) # {}
             /\ MayExecuteCmd(s, FALSE)
             /\ Becomes(AbortCmdByID(s, cmdID, NewCmdVarID(s), writeResult))
        ELSE /\ writeResult = "ok"
             /\ Becomes(AbortCmdByID(s, cmdID, 1, writeResult))

DoAbortCmdByID ==
    \E cmdID \in {None} \cup AllCmdIDs, writeResult \in WriteResults :
        AbortCmdByIDCalled(cmdID, writeResult)

\* doRead: a line from the hub is parsed and dispatched.  Its actor and
\* dispatch(msgDict) is called with the message of commander cmdr that has
\* command ID cmdID, type msgType, and data[1] and data[2] as its actor and
\* the keywords of its data
DispatchCalled(data, cmdr, cmdID, msgType) ==
    \E s \in {Collect(State)} :
        Becomes(Dispatch(s, cmdr, cmdID, data[1], msgType, data[2]))

\* data are one of msgData and its command ID None or one of cmdIDs; it is
\* for this dispatcher's commander, or for another one, whose messages
\* differ in nothing else.
DispatchFrom(msgData, cmdIDs) ==
    \E data \in msgData, cmdr \in Cmdrs, cmdID \in {None} \cup cmdIDs, msgType \in MsgTypes :
        /\ cmdr # OwnCmdr => cmdID # None /\ msgType = ":"
        /\ DispatchCalled(data, cmdr, cmdID, msgType)

\* a message with keyword data, in reply to a refresh command or to none
DoDispatch == DispatchFrom(MsgData, RefreshCmdIDs)

\* doRead(sock, msgStr): a line that parseHubMsg cannot parse is logged and
\* dropped; the message of any other is dispatched, and set of the KeyVars
\* in raising raises an exception
DoReadCalled(parses, data, cmdr, cmdID, msgType, raising) ==
    \E s \in {Collect(State)} :
        Becomes(IF parses
                THEN DispatchRaising(s, cmdr, cmdID, data[1], msgType, data[2], raising)
                ELSE s)


\* the lines read: one that cannot be parsed, and the messages of the
\* dispatcher's own commander with data for Temp, or for Temp and Pressure;
\* set of no KeyVar raises, or that of Temp
DoDoRead ==
    \/ DoReadCalled(FALSE, << "env", {} >>, OwnCmdr, None, "i", {})
    \/ \E data \in { d \in MsgData : d[1] # "other" /\ d[2] \cap { "TEMP", "temp" } # {} },
          cmdID \in {None} \cup RefreshCmdIDs,
          msgType \in MsgTypes, raising \in SUBSET { kv \in KeyVars : kv.keyword = "Temp" } :
           DoReadCalled(TRUE, data, OwnCmdr, cmdID, msgType, raising)

\* a message of the hub to this dispatcher with data of the keyword TEMP,
\* in reply to a refresh command or to none
DoDispatchOwn ==
    \E data \in { d \in MsgData : d[2] = {"TEMP"} },
       cmdID \in {None} \cup RefreshCmdIDs, msgType \in MsgTypes :
        DispatchCalled(data, OwnCmdr, cmdID, msgType)

\* a message without keyword data: a bare reply to a command
DoDispatchReply == DispatchFrom({ << "env", {} >> }, AllCmdIDs)

\* the connection changes state and calls its state callbacks
ConnStateChanges ==
    \E s \in {Collect(State)}, connIsConnected \in BOOLEAN :
        /\ Becomes(ConnStateCallback(s, connIsConnected))

\* time goes by: the time limit of command c runs out
Expires(c) ==
    /\ cmdVars[c].alloc /\ cmdVars[c].cmdID # None
    /\ cmdVars[c].timeLim /\ ~ cmdVars[c].expired
    /\ Becomes([ State EXCEPT !.cmdVars[c].expired = TRUE ])

TimePasses == \E c \in CmdVarIDs : Expires(c)

\* the commands in cmdDict.values()
CmdDictValues(s) == { s.cmdDict[cmdID] : cmdID \in { i \in AllCmdIDs : HasKey(s, i) } }

\* _checkCmdTimer fires: checkCmdTimeouts().  _checkRemCmdTimeouts starts
\* _checkRemCmdTimer for _ShortInterval (0.05 s) and then _checkCmdTimer for
\* _TimeoutInterval (1.3 s), so while _checkRemCmdTimer is pending it is due
\* first, and its callback starts _checkCmdTimer anew.
CheckCmdTimerFires ==
    /\ checkCmdTimer
    /\ ~ checkRemCmdTimer.active
    /\ \E s \in {Collect(State)} :
         \E skipped \in SUBSET CmdDictValues(s), x \in {None} \cup CmdDictValues(s) :
            /\ ScanStep(s, CmdDictValues(s), skipped, x)
            /\ Becomes(CheckCmdTimeouts(s, skipped, x))

\* _checkRemCmdTimer fires: _checkRemCmdTimeouts(cmdVarIter)
CheckRemCmdTimerFires ==
    /\ checkRemCmdTimer.active
    /\ \E s \in {[ Collect(State) EXCEPT !.checkRemCmdTimer = NoRemTimer ]},
          cmdVarIter \in {checkRemCmdTimer.cmdVarIter} :
         \E skipped \in SUBSET cmdVarIter, x \in {None} \cup cmdVarIter :
            /\ ScanStep(s, cmdVarIter, skipped, x)
            /\ Becomes(CheckRemCmdTimeouts(s, cmdVarIter, skipped, x))

\* the call _sendNextRefreshCmd issues a refresh command
WillIssue(s, isNew, iter, valid) ==
    /\ s.isConnected
    /\ isNew \/ valid
    /\ RefreshIter(s, isNew, iter) # {}

\* _refreshAllTimer fires: refreshAllVar(resetAll)
RefreshAllTimerFires ==
    /\ refreshAllTimer.active
    /\ \E s \in {Collect(State)}, resetAll \in {refreshAllTimer.resetAll} :
         IF WillIssue(s, TRUE, {}, TRUE)
         THEN /\ FreeCmdVars(s) # {}
              /\ MayExecuteCmd(s, TRUE)
              /\ \E info \in RefreshIter(s, TRUE, {}), writeResult \in WriteResults :
                    Becomes(RefreshAllVar(s, resetAll, info, NewCmdVarID(s), writeResult))
         ELSE Becomes(RefreshAllVar(s, resetAll, << >>, 1, "ok"))

\* _refreshNextTimer fires: _sendNextRefreshCmd(refreshCmdItemIter)
RefreshNextTimerFires ==
    /\ refreshNextTimer.active
    /\ \E s \in {[ Collect(State) EXCEPT !.refreshNextTimer = NoRefreshNextTimer ]},
          iter \in {refreshNextTimer.iter}, valid \in {refreshNextTimer.valid} :
         IF WillIssue(s, FALSE, iter, valid)
         THEN /\ FreeCmdVars(s) # {}
              /\ MayExecuteCmd(s, TRUE)
              /\ \E info \in iter, writeResult \in WriteResults :
                    Becomes(SendNextRefreshCmd(s, FALSE, iter, valid, info,
                                               NewCmdVarID(s), writeResult))
         ELSE Becomes(SendNextRefreshCmd(s, FALSE, iter, valid, << >>, 1, "ok"))

\* addKeyVar(keyVar) is called
AddKeyVarCalled(keyVar) ==
    \E s \in {Collect(State)} :
        /\ Len(s.keyVarListDict[<< keyVar.actor, Lower(keyVar.keyword) >>]) < MaxKeyVarList
        /\ Becomes(AddKeyVar(s, keyVar))

\* a subscriber adds a KeyVar
DoAddKeyVar == \E keyVar \in KeyVars : AddKeyVarCalled(keyVar)

\* a subscriber adds a KeyVar that is refreshed by the command "refresh"
DoAddRefreshKeyVar ==
    \E keyVar \in { kv \in KeyVars : kv.refreshCmd = "refresh" } : AddKeyVarCalled(keyVar)

\* a subscriber removes a KeyVar
DoRemoveKeyVar ==
    \E s \in {Collect(State)}, keyVar \in Registered(State) :
        /\ Becomes(RemoveKeyVar(s, keyVar))

\* Two KeyVars that share a refresh command were added while the dispatcher
\* was being set up, not yet connected
SetUpKeyVars ==
    /\ isConnected = FALSE
    /\ cmdVars = [ c \in CmdVarIDs |-> NoCmdVar ]
    /\ cmdDict = [ cmdID \in AllCmdIDs |-> None ]
    /\ userCmdIDGen = 0
    /\ refreshCmdIDGen = 0
    /\ checkCmdTimer = TRUE
    /\ checkRemCmdTimer = NoRemTimer
    /\ refreshAllTimer = NoRefreshAllTimer
    /\ refreshNextTimer = NoRefreshNextTimer
    /\ keyVarListDict = [ k \in DictKeys |->
                            CASE k = << "env", "pressure" >> ->
                                   << [actor |-> "env", keyword |-> "Pressure", refreshCmd |-> "refresh"] >>
                              [] k = << "env", "temp" >> ->
                                   << [actor |-> "env", keyword |-> "Temp", refreshCmd |-> "refresh"] >>
                              [] OTHER -> << >> ]
    /\ refreshCmdDict = [ info \in RefreshInfos |->
                            { kv \in KeyVars : kv.keyword # "Humidity" /\ GetRefreshInfo(kv) = info } ]
    /\ isCurrent = [ kv \in KeyVars |-> FALSE ]
    /\ pass = NoPass
    /\ sock = NullSocket
    /\ conn = NewConnection("", FALSE).conn

\* The commands: callers execute and abort commands, the hub replies, the
\* connection comes and goes, time passes and the timers fire.  No KeyVar is
\* registered, so no refresh command is issued.
Next ==
    \/ DoExecuteCmd
    \/ DoAbortCmdByID
    \/ DoDispatchReply
    \/ ConnStateChanges
    \/ TimePasses
    \/ CheckCmdTimerFires
    \/ CheckRemCmdTimerFires
    \/ RefreshAllTimerFires

Spec == Init /\ [][Next]_vars

\* The timers are started on the event loop, which runs every callback that
\* is due; and the time limit of every command runs out.
Fairness ==
    /\ WF_vars(CheckCmdTimerFires)
    /\ WF_vars(CheckRemCmdTimerFires)
    /\ WF_vars(RefreshAllTimerFires)
    /\ \A c \in CmdVarIDs : WF_vars(Expires(c))

FairSpec == Spec /\ Fairness

\* The timeout scan on a dispatcher that starts connected, with a hub that
\* does not reply: callers keep executing commands, time passes and the
\* timers fire.  (A write that fails may still close the connection.)
NextScan ==
    \/ DoExecuteCmd
    \/ TimePasses
    \/ CheckCmdTimerFires
    \/ CheckRemCmdTimerFires
    \/ RefreshAllTimerFires

\* __init__ with a connection that is connected
\* the dispatcher was given a connection that is connected
InitConnected == Init /\ isConnected

SpecScan == InitConnected /\ [][NextScan]_vars /\ Fairness

\* The commands and the refresh commands together, with the KeyVars set up.
NextAll ==
    \/ DoExecuteCmd
    \/ DoAbortCmdByID
    \/ DoDispatchReply
    \/ ConnStateChanges
    \/ TimePasses
    \/ CheckCmdTimerFires
    \/ CheckRemCmdTimerFires
    \/ RefreshAllTimerFires
    \/ RefreshNextTimerFires

SpecAll == SetUpKeyVars /\ [][NextAll]_vars

\* The KeyVars and their refresh: subscribers add KeyVars, the hub sends
\* keyword data and replies, the connection comes and goes, the refresh
\* timers fire.
NextRefresh ==
    \/ DoAddKeyVar
    \/ DoDispatch
    \/ ConnStateChanges
    \/ RefreshAllTimerFires
    \/ RefreshNextTimerFires

SpecRefresh == Init /\ [][NextRefresh]_vars

\* a subscriber adds a KeyVar, which may have been added before
DoAddKeyVarAgain ==
    \E s \in {Collect(State)}, keyVar \in KeyVars :
        /\ Len(s.keyVarListDict[<< keyVar.actor, Lower(keyVar.keyword) >>]) < MaxSameKeyVar
        /\ Becomes(AddKeyVar(s, keyVar))

\* The registry of KeyVars: subscribers add KeyVars, the same one more than
\* once, and remove them, the connection comes and goes, the refresh timers
\* fire.
NextKeyVars ==
    \/ DoAddKeyVarAgain
    \/ DoRemoveKeyVar
    \/ ConnStateChanges
    \/ RefreshAllTimerFires
    \/ RefreshNextTimerFires

SpecKeyVars == Init /\ [][NextKeyVars]_vars

\* The messages of the hub, with two KeyVars set up: the hub sends keyword
\* data and replies, for this dispatcher's commander and for another one,
\* the connection comes and goes, the refresh timers fire.
NextDispatch ==
    \/ DoDispatch
    \/ ConnStateChanges
    \/ RefreshAllTimerFires
    \/ RefreshNextTimerFires

SpecDispatch == SetUpKeyVars /\ [][NextDispatch]_vars

\* The lines read from the hub, some unparseable, some with data that a
\* KeyVar does not accept
NextDoRead ==
    \/ DoDoRead
    \/ ConnStateChanges
    \/ RefreshAllTimerFires
    \/ RefreshNextTimerFires

SpecDoRead == SetUpKeyVars /\ [][NextDoRead]_vars

\* The timers, with two KeyVars set up and a hub that does not reply: a
\* KeyVar with another refresh command is added, the connection comes and
\* goes, the time limits of the refresh commands run out and all timers fire.
NextTimers ==
    \/ DoAddKeyVar
    \/ ConnStateChanges
    \/ TimePasses
    \/ CheckCmdTimerFires
    \/ CheckRemCmdTimerFires
    \/ RefreshAllTimerFires
    \/ RefreshNextTimerFires

SpecTimers == SetUpKeyVars /\ [][NextTimers]_vars

\* The refresh with time, with one KeyVar set up: a KeyVar with the same
\* refresh command is added, KeyVars are removed, the hub sends keyword data
\* and replies or is silent, the connection comes and goes, the time limits
\* of the refresh commands run out and all timers fire.
NextRefreshLive ==
    \/ DoAddRefreshKeyVar
    \/ DoRemoveKeyVar
    \/ DoDispatchOwn
    \/ ConnStateChanges
    \/ TimePasses
    \/ CheckCmdTimerFires
    \/ CheckRemCmdTimerFires
    \/ RefreshAllTimerFires
    \/ RefreshNextTimerFires

\* every timer that is pending fires, _refreshNextTimer included
\* one KeyVar was added while the dispatcher was being set up, not yet
\* connected
SpecRefreshLive ==
    /\ isConnected = FALSE
    /\ cmdVars = [ c \in CmdVarIDs |-> NoCmdVar ]
    /\ cmdDict = [ cmdID \in AllCmdIDs |-> None ]
    /\ userCmdIDGen = 0
    /\ refreshCmdIDGen = 0
    /\ checkCmdTimer = TRUE
    /\ checkRemCmdTimer = NoRemTimer
    /\ refreshAllTimer = NoRefreshAllTimer
    /\ refreshNextTimer = NoRefreshNextTimer
    /\ keyVarListDict = [ k \in DictKeys |->
                            IF k = << "env", "temp" >>
                            THEN << [actor |-> "env", keyword |-> "Temp", refreshCmd |-> "refresh"] >>
                            ELSE << >> ]
    /\ refreshCmdDict = [ info \in RefreshInfos |->
                            { kv \in KeyVars : kv.keyword = "Temp" /\ GetRefreshInfo(kv) = info } ]
    /\ isCurrent = [ kv \in KeyVars |-> FALSE ]
    /\ pass = NoPass
    /\ sock = NullSocket
    /\ conn = NewConnection("", FALSE).conn
    /\ [][NextRefreshLive]_vars /\ Fairness /\ WF_vars(RefreshNextTimerFires)

----------------------------------------------------------------------------
(* RO.Comm: the actions of a TCPConnection and its socket.                 *)

\* the dispatcher is not used
DispatcherIdle ==
    /\ isConnected = FALSE
    /\ cmdVars = [ c \in CmdVarIDs |-> NoCmdVar ]
    /\ cmdDict = [ cmdID \in AllCmdIDs |-> None ]
    /\ userCmdIDGen = 0
    /\ refreshCmdIDGen = 0
    /\ checkCmdTimer = TRUE
    /\ checkRemCmdTimer = NoRemTimer
    /\ refreshAllTimer = NoRefreshAllTimer
    /\ refreshNextTimer = NoRefreshNextTimer
    /\ keyVarListDict = [ k \in DictKeys |-> << >> ]
    /\ refreshCmdDict = [ info \in RefreshInfos |-> {} ]
    /\ isCurrent = [ kv \in KeyVars |-> FALSE ]
    /\ pass = NoPass

\* the connection and its socket as an operation finds them
Start ==
    [ conn |-> [ conn EXCEPT !.calls = << >>, !.invoked = << >>, !.raised = NoError,
                             !.prev = Fresh(@) ],
      sock |-> Fresh(sock) ]

\* the connection and its socket as the operation op leaves them
Leaves(w, name, isOK, reason) ==
    /\ sock' = [ w.sock EXCEPT !.op = [ name |-> name, isOK |-> isOK, reason |-> reason ] ]
    /\ conn' = w.conn
    /\ UNCHANGED << isConnected, cmdVars, cmdDict, userCmdIDGen, refreshCmdIDGen,
                    checkCmdTimer, checkRemCmdTimer, refreshAllTimer, refreshNextTimer,
                    keyVarListDict, refreshCmdDict, isCurrent, pass >>

\* what _TkSocketWrapper.write and isOKReason can do: << put, isOK, errStr >>
Outcomes(k) ==
    IF k.kind = "Tk"
    THEN { << TRUE, TRUE, "" >>, << TRUE, FALSE, "err" >>, << FALSE, FALSE, "err" >>,
           << TRUE, TRUE, "closed by remote host" >> }
    ELSE { << TRUE, TRUE, "" >> }

\* a caller connects; the framework is chosen once
ConnectCalled(host, kind, timeLim) ==
    \E w \in {Start}, o \in Outcomes([ kind |-> kind ]) :
        /\ sock.kind \in { "Null", kind }
        /\ Leaves(Connect(w, host, kind, timeLim, o[2], o[3]), "connect", TRUE, "")

DoConnectCalled ==
    \E host \in { "hub", "" }, kind \in SockKinds, timeLim \in BOOLEAN :
        ConnectCalled(host, kind, timeLim)

\* a caller disconnects
DisconnectCalled(isOK, reason) ==
    \E w \in {Start} :
        Leaves(Disconnect(w, isOK, reason), "disconnect", isOK, reason)

DoDisconnect ==
    \E isOK \in BOOLEAN, reason \in Reasons \cup { ReasonNone } :
        DisconnectCalled(isOK, reason)

\* a caller writes data or a line of data: TCPConnection.write and
\* writeLine call the socket's
WriteCalled(data, line) ==
    \E w \in {Start}, o \in Outcomes(sock) :
        /\ Len(sock.sent) + Len(sock.queue) + Len(data) + (IF line THEN 2 ELSE 0) <= MaxSent
        /\ Leaves(Owner(w, IF line THEN WriteLine(w.sock, data, o[1], o[2], o[3])
                                   ELSE Write(w.sock, data, o[1], o[2], o[3])),
                  IF line THEN "writeLine" ELSE "write", TRUE, "")

DoWrite ==
    \E data \in { << "a" >>, << "b" >> }, line \in BOOLEAN : WriteCalled(data, line)

\* the connection attempt succeeds: the writable event of Tk, the
\* endpoint's Deferred of Twisted
SocketConnects ==
    \E w \in {Start}, o \in Outcomes(sock) :
        /\ sock.attempt
        /\ Leaves(Owner(w, IF sock.kind = "Tk"
                           THEN DoConnect(w.sock, o[2], o[3])
                           ELSE ConnectionMade(w.sock)),
                  "connected", TRUE, "")

\* Twisted reports that the connection attempt failed or that the
\* connection is lost: cleanly after loseConnection(), else with an error
SocketLoses ==
    \E w \in {Start}, reason \in { ReasonNone, "err" } :
        /\ sock.kind \in { "Twisted", "TwistedTrunk" }
        /\ sock.attempt \/ sock.protocol
        /\ reason = ReasonNone => sock.losing
        /\ Leaves(Owner(w, ConnectionLost(w.sock, reason)), "lost", TRUE, "")

\* _connectTimer fires
ConnectTimerFires ==
    \E w \in {Start} :
        /\ sock.timer
        /\ Leaves(Owner(w, ConnectTimeout(w.sock)), "timeout", TRUE, "")

\* what an auth callback does with a line: only while Authorizing does it
\* decide
Verdicts == { "wait", "ok", "fail" }

\* a chunk of data arrives on the connected channel of Tk or the attached
\* protocol of Twisted, and the read callback is called
DataArrives(chunk, verdict) ==
    \E w \in {Start} :
        /\ IF sock.kind = "Tk" THEN sock.state = "Connected" ELSE sock.protocol
        /\ verdict # "wait" => conn.state = "Authorizing" /\ conn.currRead = "auth"
        /\ Leaves(SockReadLineCallback([ w EXCEPT !.sock.buffer = @ \o chunk,
                                                   !.sock.recvd = @ \o chunk ], verdict),
                  "read", TRUE, "")

\* a Timer(0.000001, _readCallback) fires; Tk calls the connection's
\* callback, Twisted the callback the socket holds now
ReadTimerFires ==
    \E w \in {Start}, verdict \in Verdicts :
        /\ sock.readTimers > 0
        /\ verdict # "wait" => conn.state = "Authorizing" /\ conn.currRead = "auth"
        /\ \E k \in { [ w.sock EXCEPT !.readTimers = @ - 1 ] } :
               IF k.kind # "Tk" /\ SockIsDone(k)
               THEN Leaves([ w EXCEPT !.sock = k ], "read", TRUE, "")
               ELSE Leaves(SockReadLineCallback([ w EXCEPT !.sock = k ], verdict),
                           "read", TRUE, "")

\* Most lines a connection is sent.
MaxLines == 2

\* the hub sends one line or two lines at once
LineArrives ==
    \E chunk \in { << "a", "\n" >>, << "a", "\n", "b", "\n" >> }, verdict \in Verdicts :
        /\ Len(conn.toAuth) + Len(conn.toUser[1]) + Len(sock.buffer) < MaxLines
        /\ DataArrives(chunk, verdict)

\* Most characters a socket receives.
MaxStream == 4

\* the characters arrive in chunks of one or two
ChunkArrives ==
    \E chunk \in { << x >> : x \in { "a", "\r", "\n" } }
                 \cup { << x, y >> : x \in { "a", "\r", "\n" }, y \in { "a", "\r", "\n" } } :
        /\ Len(sock.recvd) + Len(chunk) <= MaxStream
        /\ DataArrives(chunk, "wait")

\* A socket on its own connection: either the connection was made and has
\* started its first connection attempt, or it still holds its NullSocket.
InitSock ==
    /\ DispatcherIdle
    /\ \E w \in { NewConnection("hub", FALSE) }
                \cup { Connect(NewConnection("hub", FALSE), "", kind, timeLim, TRUE, "") :
                         kind \in SockKinds, timeLim \in BOOLEAN } :
           /\ sock = w.sock
           /\ conn = w.conn

NextSock ==
    \/ DoDisconnect
    \/ DoWrite
    \/ SocketConnects
    \/ SocketLoses
    \/ ConnectTimerFires

SpecSock == InitSock /\ [][NextSock]_vars

\* Twisted fires the Deferred of a connection attempt and reports the loss
\* of a connection it was told to drop
SpecSockLive == SpecSock /\ WF_vars(SocketConnects \/ SocketLoses)

\* A TCPConnection from its construction on, with or without a host and an
\* authorization callback
InitConn ==
    /\ DispatcherIdle
    /\ \E host \in { "hub", "" }, auth \in BOOLEAN :
           /\ sock = NewConnection(host, auth).sock
           /\ conn = NewConnection(host, auth).conn

NextConn ==
    \/ DoConnectCalled
    \/ DoDisconnect
    \/ SocketConnects
    \/ SocketLoses
    \/ ConnectTimerFires
    \/ LineArrives
    \/ ReadTimerFires

SpecConn == InitConn /\ [][NextConn]_vars

\* TCPConnection.addStateCallback: a client registers a state callback on
\* the connection, a, which returns, or x, which raises an exception;
\* callNow calls it at once, which changes nothing here
AddStateCallbackCalled ==
    \E w \in {Start}, cb \in { "a", "x" } :
        /\ Len(conn.stateCallbacks) < MaxCallbacks
        /\ Leaves([ w EXCEPT !.conn.stateCallbacks = Append(@, cb) ],
                  "addStateCallback", TRUE, "")

\* Base.addStateCallback: a client registers a state callback on the
\* socket, which its read callback was handed
SockAddStateCallbackCalled ==
    \E w \in {Start}, cb \in { "a", "x" } :
        /\ sock.kind # "Null"
        /\ Len(sock.added) < MaxCallbacks
        /\ Leaves([ w EXCEPT !.sock.added = Append(@, cb) ],
                  "sockAddStateCallback", TRUE, "")

NextCallbacks ==
    \/ AddStateCallbackCalled
    \/ SockAddStateCallbackCalled
    \/ DoConnectCalled
    \/ DoDisconnect
    \/ SocketConnects
    \/ SocketLoses
    \/ ConnectTimerFires

\* A connection, its socket and the state callbacks of their clients
SpecCallbacks == InitSock /\ [][NextCallbacks]_vars

NextRead ==
    \/ ChunkArrives
    \/ ReadTimerFires

\* A connection in line mode without authorization whose socket is
\* connected
InitRead ==
    /\ DispatcherIdle
    /\ \E kind \in SockKinds :
           \E w \in { Connect(NewConnection("hub", FALSE), "", kind, FALSE, TRUE, "") } :
               \E v \in { Owner(w, IF kind = "Tk" THEN DoConnect(Fresh(w.sock), TRUE, "")
                                                ELSE ConnectionMade(Fresh(w.sock))) } :
                   /\ sock = v.sock
                   /\ conn = v.conn

SpecRead == InitRead /\ [][NextRead]_vars

\* the transport of the socket connect() has replaced reports: a pending
\* connection attempt succeeds, or the attempt or the connection is lost
PreviousSocketChanges ==
    \E w \in {Start}, event \in { "made", "lost", "error" } :
        /\ conn.prev.kind \in { "Twisted", "TwistedTrunk" }
        /\ IF event = "made" THEN conn.prev.attempt
                             ELSE conn.prev.attempt \/ conn.prev.protocol
        /\ event = "lost" => conn.prev.losing
        /\ \E k \in { CASE event = "made" -> ConnectionMade(w.conn.prev)
                         [] event = "lost" -> ConnectionLost(w.conn.prev, ReasonNone)
                         [] OTHER          -> ConnectionLost(w.conn.prev, "err") } :
               Leaves([ w EXCEPT !.conn = SockStateCallback([ w.conn EXCEPT !.prev = k ],
                                                            k.calls) ],
                      "previous", TRUE, "")

\* a line arrives on the protocol of the socket connect() has replaced
PreviousDataArrives ==
    \E w \in {Start}, verdict \in Verdicts :
        /\ conn.prev.protocol
        /\ Len(conn.toAuth) + Len(conn.toUser[1]) + Len(conn.prev.buffer) < MaxLines
        /\ verdict # "wait" => conn.state = "Authorizing" /\ conn.currRead = "auth"
        /\ Leaves(PrevSockReadLineCallback(
                      [ w EXCEPT !.conn.prev.buffer = @ \o << "a", "\n" >> ], verdict),
                  "previous", TRUE, "")

\* a Timer(0.000001, _readCallback) of the socket connect() has replaced
\* fires
PreviousReadTimerFires ==
    \E w \in {Start}, verdict \in Verdicts :
        /\ conn.prev.readTimers > 0
        /\ verdict # "wait" => conn.state = "Authorizing" /\ conn.currRead = "auth"
        /\ \E k \in { [ w.conn.prev EXCEPT !.readTimers = @ - 1 ] } :
               IF k.kind # "Tk" /\ SockIsDone(k)
               THEN Leaves([ w EXCEPT !.conn.prev = k ], "previous", TRUE, "")
               ELSE Leaves(PrevSockReadLineCallback([ w EXCEPT !.conn.prev = k ], verdict),
                           "previous", TRUE, "")

\* A TCPConnection that is connected anew while its last socket is still
\* at work
SpecReconnect ==
    InitConn /\ [][ \/ NextConn
                    \/ PreviousSocketChanges
                    \/ PreviousDataArrives
                    \/ PreviousReadTimerFires ]_vars

\* the client's authorization code calls _authDone, at once or later,
\* while the connection hands what it reads to the auth callback
AuthDoneCalled ==
    \E w \in {Start} :
        /\ conn.currRead = "auth"
        /\ Leaves(AuthDone(w, ""), "authDone", TRUE, "")

\* A TCPConnection whose authorization ends when the client says so
SpecAuth == InitConn /\ [][NextConn \/ AuthDoneCalled]_vars

----------------------------------------------------------------------------
(* The claims. *)

\* the command of object c is outstanding: executed and not done
Running(c) == cmdVars[c].alloc /\ ~ IsDone(cmdVars[c])

\* the command of object c has an entry in cmdDict
InCmdDict(c) == \E cmdID \in AllCmdIDs : cmdDict[cmdID] = c

\* the object of the CmdVar the next handler constructs
NextCmdVar == NewCmdVarID(Collect(State))

\* C1: every command is handed at most one terminal reply, and a command
\* that is done has no entry in cmdDict.
C1_OneTerminalReply ==
    \A c \in CmdVarIDs :
        /\ cmdVars[c].nTerm <= 1
        /\ IsDone(cmdVars[c]) => ~ InCmdDict(c)

\* C2 as claimed: every outstanding command, with or without a time limit,
\* is eventually done and out of cmdDict.
C2_EveryCmdEnds ==
    \A c \in CmdVarIDs : Running(c) ~> (~ Running(c) /\ ~ InCmdDict(c))

\* C2: every outstanding command that has a time limit is eventually done
\* and out of cmdDict.
C2_TimeLimitedCmdEnds ==
    \A c \in CmdVarIDs :
        (Running(c) /\ cmdVars[c].timeLim) ~> (~ Running(c) /\ ~ InCmdDict(c))

\* a command whose time limit has run out is outstanding, the dispatcher
\* connected
C2_Witness ==
    \E c \in CmdVarIDs :
        Running(c) /\ cmdVars[c].timeLim /\ cmdVars[c].expired /\ isConnected

\* C3: no two outstanding commands have the same ID; every outstanding
\* command has the entry of its ID in cmdDict; the ID of a refresh command
\* is one of the refresh IDs and the ID of any other command one of the user
\* IDs.
C3_UniqueIDs ==
    /\ \A c, d \in CmdVarIDs :
         (Running(c) /\ Running(d) /\ c # d) => cmdVars[c].cmdID # cmdVars[d].cmdID
    /\ \A c \in CmdVarIDs :
         Running(c) =>
            /\ cmdVars[c].cmdID \in (IF cmdVars[c].isRefresh THEN RefreshCmdIDs ELSE UserCmdIDs)
            /\ cmdDict[cmdVars[c].cmdID] = c
    /\ UserCmdIDs \cap RefreshCmdIDs = {}

\* a refresh command and another command are outstanding, and every user ID
\* has been drawn
C3_Witness ==
    \E c, d \in CmdVarIDs :
        /\ Running(c) /\ cmdVars[c].isRefresh
        /\ Running(d) /\ ~ cmdVars[d].isRefresh /\ cmdVars[d].cmdID = CmdNumWrap

\* C4 as claimed: a command with a time limit that is executed while the
\* dispatcher is not connected is registered.
C4_RegisteredUnconnected ==
    [][ \A abortCmdStr \in BOOLEAN, writeResult \in WriteResults :
          (~ isConnected /\ ExecuteCmdCalled(TRUE, abortCmdStr, writeResult))
             => \E cmdID \in AllCmdIDs : cmdDict'[cmdID] = NextCmdVar ]_vars

\* C4: a command with a time limit that is executed while the dispatcher is
\* not connected is not registered and is failed at once as not connected;
\* and a command is timed out only if it is registered, its time limit has
\* run out and the dispatcher is connected, and then its entry is removed.
C4_TimeoutNeedsConnection ==
    [][ /\ \A abortCmdStr \in BOOLEAN, writeResult \in WriteResults :
             (~ isConnected /\ ExecuteCmdCalled(TRUE, abortCmdStr, writeResult))
                => /\ cmdVars'[NextCmdVar].lastData = "Failed not connected"
                   /\ \A cmdID \in AllCmdIDs : cmdDict'[cmdID] # NextCmdVar
        /\ \A c \in CmdVarIDs :
             (cmdVars'[c].lastData = "Timeout" /\ cmdVars'[c] # cmdVars[c])
                => /\ isConnected
                   /\ Running(c) /\ cmdVars[c].timeLim /\ cmdVars[c].expired
                   /\ cmdDict[cmdVars[c].cmdID] = c
                   /\ cmdDict'[cmdVars[c].cmdID] = None ]_vars

\* a command was failed as not connected, the timeout scan pending
C4_Witness ==
    /\ ~ isConnected
    /\ checkCmdTimer
    /\ \E c \in CmdVarIDs : cmdVars[c].lastData = "Failed not connected" /\ ~ InCmdDict(c)

\* C5: on the connected dispatcher every outstanding command whose time
\* limit has run out is eventually timed out by the scan, with one terminal
\* reply, and leaves cmdDict (unless a failed write closes the connection
\* first), while new commands are executed; and _checkCmdTimer is pending
\* after every handler.
C5_ScanRetiresExpired ==
    /\ [] checkCmdTimer
    /\ \A c \in CmdVarIDs :
         (Running(c) /\ cmdVars[c].timeLim /\ cmdVars[c].expired /\ isConnected)
            ~> /\ IsDone(cmdVars[c])
               /\ cmdVars[c].nTerm = 1
               /\ ~ InCmdDict(c)
               /\ cmdVars[c].lastData = "Timeout" \/ ~ isConnected

\* in the middle of a scan: one command was timed out, and the iterator of
\* the pending _checkRemCmdTimer holds another whose time limit has run out
C5_Witness ==
    /\ isConnected
    /\ checkRemCmdTimer.active
    /\ \E c \in checkRemCmdTimer.cmdVarIter : Running(c) /\ cmdVars[c].expired
    /\ \E d \in CmdVarIDs : cmdVars[d].lastData = "Timeout"

\* C6 as claimed: every command that is outstanding when the dispatcher is
\* not connected is eventually done.
C6_AbortedWhenDisconnected ==
    \A c \in CmdVarIDs : (Running(c) /\ ~ isConnected) ~> ~ Running(c)

\* C7: executeCmd on a dispatcher that is not connected hands the command
\* one reply, "Failed ... not connected", gives it no ID, writes nothing and
\* leaves cmdDict and both ID generators as they were.
C7_FailedNotConnected ==
    [][ \A timeLim, abortCmdStr \in BOOLEAN, writeResult \in WriteResults :
          (~ isConnected /\ ExecuteCmdCalled(timeLim, abortCmdStr, writeResult))
             => /\ cmdVars'[NextCmdVar].lastData = "Failed not connected"
                /\ DidFail(cmdVars'[NextCmdVar])
                /\ cmdVars'[NextCmdVar].nTerm = 1
                /\ cmdVars'[NextCmdVar].cmdID = None
                /\ ~ cmdVars'[NextCmdVar].written
                /\ cmdDict' = cmdDict
                /\ userCmdIDGen' = userCmdIDGen
                /\ refreshCmdIDGen' = refreshCmdIDGen ]_vars

\* a command was failed as not connected while another one is registered
C7_Witness ==
    /\ ~ isConnected
    /\ \E c, d \in CmdVarIDs :
         /\ cmdVars[c].lastData = "Failed not connected" /\ cmdVars[c].nTerm = 1
         /\ Running(d) /\ InCmdDict(d)

\* C8: when the write of executeCmd fails, the command has been handed one
\* reply, "WriteFailed", is failed and has no entry in cmdDict when
\* executeCmd returns; and a command so failed is never handed another
\* terminal reply.
C8_WriteFailed ==
    [][ /\ \A timeLim, abortCmdStr \in BOOLEAN, writeResult \in WriteResults \ {"ok"} :
             (isConnected /\ ExecuteCmdCalled(timeLim, abortCmdStr, writeResult))
                => /\ cmdVars'[NextCmdVar].lastData = "WriteFailed"
                   /\ DidFail(cmdVars'[NextCmdVar])
                   /\ cmdVars'[NextCmdVar].nTerm = 1
                   /\ ~ cmdVars'[NextCmdVar].written
                   /\ \A cmdID \in AllCmdIDs : cmdDict'[cmdID] # NextCmdVar
        /\ \A c \in CmdVarIDs :
             cmdVars'[c].lastData = "WriteFailed"
                => cmdVars'[c].nTerm = 1 /\ \A cmdID \in AllCmdIDs : cmdDict'[cmdID] # c ]_vars

\* the write of a command failed while another command is registered
C8_Witness ==
    \E c, d \in CmdVarIDs :
        /\ cmdVars[c].lastData = "WriteFailed" /\ ~ InCmdDict(c)
        /\ Running(d) /\ InCmdDict(d)

\* C9 as claimed: abortCmdByID adds no entry to cmdDict and draws no ID.
C9_AbortFireAndForget ==
    [][ \A cmdID \in {None} \cup AllCmdIDs, writeResult \in WriteResults :
          AbortCmdByIDCalled(cmdID, writeResult)
             => /\ \A i \in AllCmdIDs : cmdDict'[i] # None => cmdDict'[i] = cmdDict[i]
                /\ userCmdIDGen' = userCmdIDGen ]_vars

\* C9: abortCmdByID leaves everything as it is when the ID is None or no
\* key of cmdDict.  Otherwise the command of that ID is handed one reply,
\* "Aborted", is failed and its entry is removed; and if it has an abort
\* command and the dispatcher is connected, the abort command is executed
\* like any command, without a time limit: written under the next free user
\* ID and registered under it, or failed at once if the write fails.  Else
\* nothing more changes in cmdDict and no ID is drawn.
C9_Abort ==
    [][ \A cmdID \in {None} \cup AllCmdIDs, writeResult \in WriteResults :
          AbortCmdByIDCalled(cmdID, writeResult) =>
             IF cmdID = None \/ cmdDict[cmdID] = None
             THEN /\ cmdDict' = cmdDict
                  /\ userCmdIDGen' = userCmdIDGen
                  /\ cmdVars' = Collect(State).cmdVars
                  /\ isConnected' = isConnected
             ELSE /\ cmdVars'[cmdDict[cmdID]].lastData = "Aborted"
                  /\ DidFail(cmdVars'[cmdDict[cmdID]])
                  /\ cmdVars'[cmdDict[cmdID]].nTerm = 1
                  /\ cmdDict'[cmdID] = None
                  /\ IF cmdVars[cmdDict[cmdID]].abortCmdStr /\ isConnected
                     THEN IF writeResult = "ok"
                          THEN /\ cmdVars'[NextCmdVar].alloc
                               /\ ~ IsDone(cmdVars'[NextCmdVar])
                               /\ ~ cmdVars'[NextCmdVar].timeLim
                               /\ cmdVars'[NextCmdVar].written
                               /\ cmdVars'[NextCmdVar].cmdID \in UserCmdIDs \ {cmdID}
                               /\ cmdDict[cmdVars'[NextCmdVar].cmdID] = None
                               /\ cmdDict' = [ cmdDict EXCEPT ![cmdID] = None,
                                                 ![cmdVars'[NextCmdVar].cmdID] = NextCmdVar ]
                               /\ userCmdIDGen' = cmdVars'[NextCmdVar].cmdID % CmdNumWrap
                          ELSE /\ cmdVars'[NextCmdVar].lastData = "WriteFailed"
                               /\ cmdDict' = [ cmdDict EXCEPT ![cmdID] = None ]
                     ELSE /\ cmdDict' = [ cmdDict EXCEPT ![cmdID] = None ]
                          /\ userCmdIDGen' = userCmdIDGen ]_vars

\* a command was aborted and its abort command is registered
C9_Witness ==
    \E c, d \in CmdVarIDs :
        /\ cmdVars[c].lastData = "Aborted" /\ ~ InCmdDict(c)
        /\ Running(d) /\ InCmdDict(d) /\ ~ cmdVars[d].timeLim /\ ~ cmdVars[d].abortCmdStr
        /\ cmdVars[d].cmdID = (cmdVars[c].cmdID % CmdNumWrap) + 1

\* C10: a refresh pass issues no refresh command twice; a pass that has
\* run to its end has issued one refresh command for every pair of actor and
\* refresh command of the registered KeyVars and none for any other pair;
\* and a refresh command that failed has logged one warning, that names the
\* keywords of all KeyVars of its pair.
C10_OneRefreshCmdPerGroup ==
    /\ \A info \in RefreshInfos : pass.issued[info] <= 1
    /\ pass.complete =>
          \A info \in RefreshInfos :
             pass.issued[info] =
                IF \E kv \in Registered(State) : HasRefreshCmd(kv) /\ GetRefreshInfo(kv) = info
                THEN 1 ELSE 0
    /\ \A c \in CmdVarIDs :
          (cmdVars[c].isRefresh /\ DidFail(cmdVars[c]) /\ cmdVars[c].nTerm > 0) =>
             /\ cmdVars[c].nWarn = 1
             /\ cmdVars[c].warnKeys =
                   { kv.keyword : kv \in { k \in Registered(State) :
                                             GetRefreshInfo(k) = cmdVars[c].refreshInfo } }

\* a pass has run to its end on the connected dispatcher, with two KeyVars
\* that share a refresh command and a third with another one
C10_Witness ==
    /\ isConnected
    /\ pass.complete
    /\ \A info \in RefreshInfos : pass.issued[info] = 1
    /\ \E info \in RefreshInfos : Cardinality(refreshCmdDict[info]) = 2

\* the refresh command of two KeyVars failed and the warning names both
C10_WitnessFailed ==
    \E c \in CmdVarIDs :
        /\ cmdVars[c].isRefresh /\ DidFail(cmdVars[c])
        /\ cmdVars[c].nWarn = 1 /\ Cardinality(cmdVars[c].warnKeys) = 2

\* the dispatcher is connected and refreshAllVar is due: the connection has
\* just become connected, or a KeyVar was added to the connected dispatcher
RefreshDue(kv) ==
    /\ isConnected
    /\ refreshAllTimer.active
    /\ kv \in Registered(State)
    /\ HasRefreshCmd(kv)

Matched(data) ==
    { kv \in KeyVars :
        \E keywd \in data[2] :
            LET k == << KeyActor(data[1]), Lower(keywd) >>
            IN  /\ k \in DictKeys
                /\ \E i \in 1 .. Len(keyVarListDict[k]) : keyVarListDict[k][i] = kv }

\* C12: a call of dispatch changes only the KeyVars registered under the
\* actor and keywords of the message and, when the message is of the
\* dispatcher's own commander, the one command registered under its command
\* ID; a message that matches no KeyVar and no outstanding command of the
\* dispatcher leaves every KeyVar, cmdDict and refreshCmdDict as they were.
C12_DispatchFrame ==
    [][ \A data \in MsgData, cmdr \in Cmdrs, cmdID \in {None} \cup RefreshCmdIDs,
           msgType \in MsgTypes :
            (cmdr # OwnCmdr => cmdID # None /\ msgType = ":")
                => (DispatchCalled(data, cmdr, cmdID, msgType)
                        => LET s == Collect(State)
                               own == cmdr = OwnCmdr /\ HasKey(s, cmdID)
                           IN  /\ \A kv \in KeyVars \ Matched(data) :
                                      isCurrent'[kv] = isCurrent[kv]
                               /\ \A c \in CmdVarIDs :
                                      cmdVars'[c] # s.cmdVars[c] => own /\ s.cmdDict[cmdID] = c
                               /\ \A i \in AllCmdIDs :
                                      cmdDict'[i] # cmdDict[i] => own /\ i = cmdID
                               /\ UNCHANGED << isConnected, userCmdIDGen, refreshCmdIDGen,
                                               checkCmdTimer, checkRemCmdTimer,
                                               refreshAllTimer, refreshNextTimer,
                                               keyVarListDict, refreshCmdDict >>
                               /\ (Matched(data) = {} /\ ~ own) =>
                                      /\ UNCHANGED << isCurrent, cmdDict >>
                                      /\ cmdVars' = s.cmdVars) ]_vars

\* the hub's reply to the refresh command of two KeyVars had data for one of
\* them only: the command is done and no longer in cmdDict, one KeyVar is
\* current and the others are as they were
C12_Witness ==
    /\ \E c \in CmdVarIDs :
          /\ cmdVars[c].isRefresh /\ cmdVars[c].nTerm = 1 /\ cmdVars[c].lastData = "hub"
          /\ cmdVars[c].refreshInfo = << "env", "refresh" >>
          /\ cmdDict[cmdVars[c].cmdID] = None
    /\ \E kv \in Registered(State) : kv.keyword = "Temp" /\ isCurrent[kv]
    /\ \E kv \in Registered(State) : kv.keyword = "Pressure" /\ ~ isCurrent[kv]
    /\ \E kv \in KeyVars \ Registered(State) : ~ isCurrent[kv]
    /\ \E c \in CmdVarIDs : Running(c)

\* the commands the timeout scan retires in a step: outstanding before, and
\* after it timed out or aborted because the dispatcher is not connected
Retired ==
    { c \in CmdVarIDs :
        /\ Running(c)
        /\ cmdVars'[c].lastData \in {"Timeout", "Aborted disconnected"} }

\* the objects of the refresh commands made in a step: free before, or
\* garbage that the step replaced or drew a command ID for
Issued ==
    { c \in CmdVarIDs :
        /\ ~ Collect(State).cmdVars[c].alloc
        /\ cmdVars'[c].alloc /\ cmdVars'[c].isRefresh
        /\ cmdVars'[c] # cmdVars[c] \/ refreshCmdIDGen' # refreshCmdIDGen }

\* the iterator the timeout scan of a step works on: that of the pending
\* _checkRemCmdTimer, else a new one over the commands of cmdDict
ScanIter ==
    IF checkRemCmdTimer.active THEN checkRemCmdTimer.cmdVarIter
    ELSE CmdDictValues(Collect(State))

\* C20: no step retires more than one command or issues more than one
\* refresh command.  A step that retires a command leaves _checkRemCmdTimer
\* pending with the rest of its iterator, which still holds every other
\* command that is due; a step that issues a refresh command leaves
\* _refreshNextTimer pending with the other items of the iterator it worked
\* on: that of _refreshNextTimer, or a new one over refreshCmdDict.
C20_OneUnitPerStep ==
    [][ /\ Cardinality(Retired) <= 1
        /\ \A x \in Retired :
              /\ checkRemCmdTimer'.active
              /\ checkCmdTimer'
              /\ checkRemCmdTimer'.cmdVarIter \subseteq ScanIter \ {x}
              /\ \A y \in ScanIter \ {x} :
                    Fails(Collect(State), y) => y \in checkRemCmdTimer'.cmdVarIter
        /\ Cardinality(Issued) <= 1
        /\ \A c \in Issued :
              /\ refreshNextTimer'.active
              /\ refreshNextTimer'.valid
              /\ \/ /\ refreshNextTimer.active
                       /\ cmdVars'[c].refreshInfo \in refreshNextTimer.iter
                       /\ refreshNextTimer'.iter =
                             refreshNextTimer.iter \ {cmdVars'[c].refreshInfo}
                 \/ /\ refreshAllTimer.active
                       /\ refreshNextTimer'.iter =
                             { info \in RefreshInfos : refreshCmdDict'[info] # {} }
                                 \ {cmdVars'[c].refreshInfo} ]_vars

\* both kinds of work are half done: the scan has retired one refresh
\* command and its timer holds another that is due, while _refreshNextTimer
\* holds the refresh command of a pass that is still to be issued
C20_Witness ==
    /\ checkRemCmdTimer.active
    /\ \E c \in checkRemCmdTimer.cmdVarIter : Running(c) /\ Fails(State, c)
    /\ \E d \in CmdVarIDs :
          IsDone(cmdVars[d]) /\ cmdVars[d].lastData \in {"Timeout", "Aborted disconnected"}
    /\ refreshNextTimer.active /\ refreshNextTimer.iter # {}

\* C13: calling disconnect, which calls close, on a connection that is
\* Disconnected or Failed, or on a socket that is Closed or Failed, is a
\* no-op for every isOK and reason: the state and the reason of the socket
\* and of the connection stay, no state callback is called, no transport
\* teardown is started and no error is raised.
C13_CloseDoneNoOp ==
    [][\A isOK \in BOOLEAN, reason \in Reasons \cup { ReasonNone } :
           /\ DisconnectCalled(isOK, reason)
           /\ SockIsDone(sock) \/ conn.state \in { "Disconnected", "Failed" }
           => /\ sock'.state = sock.state
              /\ sock'.reason = sock.reason
              /\ conn'.state = conn.state
              /\ conn'.reason = conn.reason
              /\ sock'.calls = << >>
              /\ conn'.calls = << >>
              /\ sock'.teardown = 0
              /\ sock'.raised = NoError
              /\ sock'.hasCallback = sock.hasCallback
              /\ sock'.sent = sock.sent
      ]_vars

\* a socket that failed with reason "bad" was then closed with isOK and
\* reason "bye"
C13_Witness ==
    /\ sock.kind = "Twisted"
    /\ sock.state = "Failed"
    /\ sock.reason = "bad"
    /\ conn.state = "Failed"
    /\ conn.reason = "bad"
    /\ sock.op = [ name |-> "disconnect", isOK |-> TRUE, reason |-> "bye" ]
    /\ sock.calls = << >>
    /\ conn.calls = << >>

\* C14: after close is called on a socket that is not done, in whichever
\* state, the socket first enters Closing (isOK) or Failing (not isOK) and
\* then eventually reaches Closed or Failed: it never stays in Closing or
\* Failing forever and never returns from Closing or Failing to Connecting
\* or Connected.
C14_CloseCompletes ==
    /\ [][\A isOK \in BOOLEAN, reason \in Reasons \cup { ReasonNone } :
              DisconnectCalled(isOK, reason) /\ ~ SockIsDone(sock)
              => /\ sock'.calls # << >>
                 /\ sock'.calls[1][1] = IF isOK THEN "Closing" ELSE "Failing"
         ]_vars
    /\ [][sock.state \in { "Closing", "Failing" }
              => sock'.state \notin { "Connecting", "Connected" }]_vars
    /\ sock.state \in { "Closing", "Failing" } ~> SockIsDone(sock)

\* C15: write or writeLine on a socket whose state is not Connecting or
\* Connected (Closing, Failing, Closed, Failed, or the NullSocket a
\* TCPConnection holds before its first connect) raises the error of a
\* socket that is not connected, a RuntimeError ("... not connected"; the
\* NullSocket words it "Cannot write ... to null socket"), sends no
\* characters and leaves the state and the reason of the socket unchanged.
C15_NotConnectedError ==
    [][\A data \in { << "a" >>, << "b" >> }, line \in BOOLEAN :
           WriteCalled(data, line) /\ sock.state \notin { "Connecting", "Connected" }
           => /\ sock'.raised.type = "RuntimeError"
              /\ sock'.raised.msg = IF sock.kind # "Null" THEN "not connected"
                                    ELSE IF line THEN "Cannot writeLine to null socket"
                                    ELSE "Cannot write to null socket"
              /\ sock'.sent = sock.sent
              /\ sock'.queue = sock.queue
              /\ sock'.state = sock.state
              /\ sock'.reason = sock.reason
              /\ sock'.calls = << >>
              /\ sock'.teardown = 0
              /\ conn'.state = conn.state
              /\ conn'.reason = conn.reason
      ]_vars

\* a Twisted socket that was connected, has sent data and is closing was
\* written to
C15_Witness ==
    /\ sock.kind = "Twisted"
    /\ sock.state = "Closing"
    /\ sock.sent = << "a", "\r", "\n" >>
    /\ sock.op.name = "write"
    /\ sock.raised = RuntimeError("not connected")

\* C16: write and writeLine are accepted without error while the socket is
\* still Connecting: unless the write finds the channel broken and fails
\* the socket, nothing is raised and the data is queued behind the data
\* queued before; when the connection is made the queue is sent, in order.
C16_WriteWhileConnecting ==
    /\ [][\A data \in { << "a" >>, << "b" >> }, line \in BOOLEAN :
              /\ WriteCalled(data, line)
              /\ sock.state = "Connecting"
              /\ sock'.state = "Connecting"
              => /\ sock'.raised = NoError
                 /\ sock'.queue = sock.queue \o data \o (IF line THEN CRLF ELSE << >>)
                 /\ sock'.sent = sock.sent
         ]_vars
    /\ [][SocketConnects /\ sock.state = "Connecting" /\ sock'.state = "Connected"
              => /\ sock'.sent = sock.sent \o sock.queue
                 /\ sock'.queue = << >>
         ]_vars

\* C17: TCPConnection.connect raises an error and leaves the state, the
\* reason, the host and the socket of the connection unchanged whenever the
\* state is Connecting, Authorizing or Connected or no host is known.  In
\* every other state it detaches the previous socket and closes it if it is
\* not done, and installs one new socket, with the connection's callback,
\* whose state and reason are from then on those the connection shows.
C17_Connect ==
    /\ [][\A host \in { "hub", "" }, kind \in SockKinds, timeLim \in BOOLEAN :
              ConnectCalled(host, kind, timeLim)
              => IF ~ MayConnect(conn) \/ (host = "" /\ conn.host = "")
                 THEN /\ conn'.raised.type = "RuntimeError"
                      /\ conn' = [ Start.conn EXCEPT !.raised = conn'.raised ]
                      /\ [ sock' EXCEPT !.op = sock.op ] = Fresh(sock)
                 ELSE /\ conn'.raised = NoError
                      /\ conn'.host = IF host # "" THEN host ELSE conn.host
                      /\ ~ conn'.prev.hasCallback
                      /\ conn'.prev.state = IF SockIsDone(sock) THEN sock.state
                                            ELSE IF sock.kind = "Tk" THEN "Closed" ELSE "Closing"
                      /\ sock'.kind = kind
                      /\ sock'.hasCallback \/ SockIsDone(sock')
                      /\ sock'.sent = << >> /\ sock'.recvd = << >>
                      /\ Len(sock'.calls) >= 1 /\ sock'.calls[1][1] = "Connecting"
         ]_vars
    /\ [](/\ \/ conn.state = LocalState(conn, sock.state)
             \/ (conn.state = "Connected" /\ sock.state = "Connected")
          /\ sock.kind # "Null" => (conn.reason = sock.reason \/ conn.state = "Connected"))

\* a connection that was Disconnecting has connected again: its old socket
\* was detached and is closing, the new one is Connecting
C17_Witness ==
    /\ sock.op.name = "connect"
    /\ sock.kind = "Twisted"
    /\ sock.state = "Connecting"
    /\ sock.hasCallback
    /\ conn.state = "Connecting"
    /\ conn.prev.state = "Closing"
    /\ ~ conn.prev.hasCallback
    /\ conn.raised = NoError

\* C18: with an authorization read callback, the socket becoming Connected
\* puts the TCPConnection into Authorizing and never directly into
\* Connected; from connect until _authDone every line read is given to the
\* auth callback and to no user read callback; _authDone, called by the auth
\* callback, makes the state Connected and from then on lines go to the user
\* read callbacks only; disconnect(False, reason) during Authorizing leads to
\* Failing and, unless the caller connects or disconnects anew, to Failed and
\* never to Connected.
C18_Authorization ==
    /\ [][conn.auth /\ sock.state # "Connected" /\ sock'.state = "Connected"
              => /\ conn'.state = "Authorizing"
                 /\ \A i \in 1..Len(conn'.calls) : conn'.calls[i][1] # "Connected"]_vars
    /\ [][conn.auth /\ sock'.op.name = "connect" /\ conn'.raised = NoError
              => conn'.currRead = "auth"]_vars
    /\ [][conn.auth /\ (conn.currRead = "auth" \/ conn.state \in { "Connecting", "Authorizing" })
              => conn'.toUser = conn.toUser]_vars
    /\ [][conn.auth /\ conn.currRead = "auth" /\ conn'.currRead = "user"
              => /\ conn.state = "Authorizing"
                 /\ conn'.state = "Connected"
                 /\ Len(conn'.toAuth) = Len(conn.toAuth) + 1]_vars
    /\ [][conn.auth /\ conn.state # "Connected" /\ conn'.state = "Connected"
              => conn.state = "Authorizing" /\ conn'.currRead = "user"]_vars
    /\ [][conn.auth /\ (conn.currRead = "user" \/ conn.state = "Connected")
              => conn'.toAuth = conn.toAuth]_vars
    /\ [][\A reason \in Reasons \cup { ReasonNone } :
              conn.auth /\ conn.state = "Authorizing" /\ DisconnectCalled(FALSE, reason)
              => /\ conn'.state \in { "Failing", "Failed" }
                 /\ \A i \in 1..Len(conn'.calls) : conn'.calls[i][1] # "Connected"]_vars
    /\ [][conn.auth /\ conn.state = "Failing" /\ sock.losing
              => \/ conn'.state \in { "Failing", "Failed" }
                 \/ sock'.op.name \in { "connect", "disconnect" }]_vars

\* the auth callback got the first line and called _authDone, the user read
\* callbacks got the second
C18_Witness ==
    /\ conn.auth
    /\ conn.state = "Connected"
    /\ conn.toAuth = << << "a" >> >>
    /\ \A cb \in UserReadCallbacks : conn.toUser[cb] = << << "b" >> >>

\* the auth callback refused the line it got and the connection failed
C18_WitnessFailed ==
    /\ conn.auth
    /\ conn.state = "Failed"
    /\ conn.reason = "bad"
    /\ conn.toAuth = << << "a" >> >>
    /\ sock.kind = "Twisted"
    /\ \A cb \in UserReadCallbacks : conn.toUser[cb] = << >>

\* the complete lines of a stream of characters, without their terminators:
\* "\r\n", "\r" and "\n" each end one line
RECURSIVE CompleteLines(_)
CompleteLines(stream) ==
    LET i == FirstEnd(stream, 1)
        n == IF stream[i] = "\r" /\ i < Len(stream) /\ stream[i + 1] = "\n" THEN 2 ELSE 1
    IN  IF i = 0 THEN << >>
        ELSE << SubSeq(stream, 1, i - 1) >> \o CompleteLines(SubSeq(stream, i + n, Len(stream)))

\* C19: in line mode, for any stream of characters received and any way it
\* is split into chunks, what every user read callback has been handed is
\* the complete lines of the stream, in order, without their terminators,
\* each once: never more than the stream holds, all of them once no read
\* callback is pending, and the characters after the last terminator stay
\* in the buffer.
C19_LinesDelivered ==
    \A cb \in UserReadCallbacks :
        LET lines == CompleteLines(sock.recvd)
            got   == conn.toUser[cb]
        IN  /\ Len(got) <= Len(lines)
            /\ got = SubSeq(lines, 1, Len(got))
            /\ sock.readTimers = 0 => got = lines /\ FirstEnd(sock.buffer, 1) = 0
            /\ Len(sock.buffer) <= Len(sock.recvd)
            /\ sock.buffer = SubSeq(sock.recvd, Len(sock.recvd) - Len(sock.buffer) + 1,
                                    Len(sock.recvd))

\* C21: on every change of state of a socket (Base._setState) and of a
\* TCPConnection (_setState) every state callback registered when the
\* operation began is called once, in the order of registration, whether
\* or not an earlier one raises; a socket that becomes done is left
\* holding no callback, and no callback of a done socket is called again.
C21_CallbacksInvoked ==
    [][ /\ \A i \in 1..Len(sock'.invoked) :
               sock'.invoked[i] = IF sock'.op.name = "connect" /\ conn'.raised = NoError
                                  THEN << "owner" >>
                                  ELSE StateCallbackList(sock)
        /\ \A i \in 1..Len(conn'.invoked) : conn'.invoked[i] = conn.stateCallbacks
        /\ sock'.invoked # << >> /\ SockIsDone(sock') => StateCallbackList(sock') = << >>
        /\ SockIsDone(sock) /\ sock'.op.name # "connect" => sock'.invoked = << >>
      ]_vars

\* the part of C21 about the socket alone
C21_SocketCallbacksInvoked ==
    [][ /\ \A i \in 1..Len(sock'.invoked) :
               sock'.invoked[i] = IF sock'.op.name = "connect" /\ conn'.raised = NoError
                                  THEN << "owner" >>
                                  ELSE StateCallbackList(sock)
        /\ sock'.invoked # << >> /\ SockIsDone(sock') => StateCallbackList(sock') = << >>
        /\ SockIsDone(sock) /\ sock'.op.name # "connect" => sock'.invoked = << >>
      ]_vars

\* C22: Closed and Failed are sinks of a socket: once it is done no close,
\* write, timer or transport event changes its state or its reason, and
\* any _setState attempted on it raises RuntimeError and leaves both as
\* they are.
C22_DoneIsSink ==
    /\ [][SockIsDone(sock) => sock'.state = sock.state /\ sock'.reason = sock.reason]_vars
    /\ [](SockIsDone(sock) =>
            \A newState \in { "Connecting", "Connected", "Closing", "Failing", "Closed", "Failed" },
               reason \in Reasons \cup { ReasonNone } :
                \E k \in { SockSetState(Fresh(sock), newState, reason) } :
                    /\ k.raised = RuntimeError("Already done; cannot change state")
                    /\ k.state = sock.state
                    /\ k.reason = sock.reason
                    /\ k.invoked = << >>)

\* a Tk socket failed and was then written to
C22_Witness ==
    /\ sock.kind = "Tk"
    /\ sock.state = "Failed"
    /\ sock.op.name = "write"
    /\ sock.invoked = << >>
    /\ sock.raised = RuntimeError("not connected")

\* a Twisted socket was closed and close was called on it again
C22_WitnessClosed ==
    /\ sock.kind = "Twisted"
    /\ sock.state = "Closed"
    /\ sock.reason = "bye"
    /\ sock.op = [ name |-> "disconnect", isOK |-> FALSE, reason |-> "bad" ]
    /\ sock.invoked = << >>

\* C23: when doRead dispatches a message and set of some of the KeyVars it
\* matches raises, every other KeyVar registered under the actor and a
\* keyword of the message is set and the message is handed to the
\* outstanding command that has its command ID, which is retired if the
\* message is terminal; a line that cannot be parsed changes no KeyVar, no
\* command and nothing else of the dispatcher.
C23_SetRaises ==
    [][ /\ \A data \in { d \in MsgData : d[1] # "other" /\ d[2] \cap { "TEMP", "temp" } # {} },
              cmdID \in {None} \cup RefreshCmdIDs,
              msgType \in MsgTypes, raising \in SUBSET { kv \in KeyVars : kv.keyword = "Temp" } :
            DoReadCalled(TRUE, data, OwnCmdr, cmdID, msgType, raising)
                => /\ \A kv \in KeyVars \ raising :
                         (\E keywd \in data[2] :
                             /\ << KeyActor(data[1]), Lower(keywd) >> \in DictKeys
                             /\ \E i \in 1 .. Len(keyVarListDict[<< KeyActor(data[1]), Lower(keywd) >>]) :
                                    keyVarListDict[<< KeyActor(data[1]), Lower(keywd) >>][i] = kv)
                         => isCurrent'[kv]
                   /\ \A c \in CmdVarIDs :
                         cmdID # None /\ cmdDict[cmdID] = c /\ ~ IsDone(cmdVars[c])
                         => /\ cmdVars'[c].lastType = msgType
                            /\ msgType \in DoneTypes
                               => /\ cmdVars'[c].lastData = "hub"
                                  /\ cmdVars'[c].nTerm = 1
                                  /\ cmdDict'[cmdID] = None
        /\ DoReadCalled(FALSE, << "env", {} >>, OwnCmdr, None, "i", {})
                => /\ cmdVars' = Collect(State).cmdVars
                   /\ UNCHANGED << isConnected, cmdDict, userCmdIDGen, refreshCmdIDGen,
                                   checkCmdTimer, checkRemCmdTimer, refreshAllTimer,
                                   refreshNextTimer, keyVarListDict, refreshCmdDict,
                                   isCurrent >> ]_vars

\* the hub's reply to the refresh command of two KeyVars had data for both
\* and set of Temp raised: the command is done, Pressure is current and
\* Temp is not
C23_Witness ==
    /\ \E c \in CmdVarIDs :
          /\ cmdVars[c].isRefresh /\ cmdVars[c].nTerm = 1 /\ cmdVars[c].lastData = "hub"
          /\ cmdVars[c].refreshInfo = << "env", "refresh" >>
          /\ cmdDict[cmdVars[c].cmdID] = None
    /\ \E kv \in Registered(State) : kv.keyword = "Pressure" /\ isCurrent[kv]
    /\ \E kv \in Registered(State) : kv.keyword = "Temp" /\ ~ isCurrent[kv]

\* C24: a close called while the socket is Connecting cancels the pending
\* connect timer; the connect timeout does not act on a socket that is
\* closing; and a close with isOK true and a reason, called while
\* Connecting, that ends in Closed leaves the reason it was given.
C24_CloseCancelsTimer ==
    [][ /\ sock.state = "Connecting" /\ sock'.op.name = "disconnect" => ~ sock'.timer
        /\ sock.state = "Closing" /\ sock'.op.name = "timeout"
           => sock'.state = "Closing" /\ sock'.reason = sock.reason
        /\ /\ sock.state = "Connecting" /\ sock'.op.name = "disconnect"
           /\ sock'.op.isOK /\ sock'.op.reason # ReasonNone
           /\ sock'.state = "Closed"
           => sock'.reason = sock'.op.reason ]_vars

C26_DoneIsDisconnectedOrFailed ==
    /\ ConnIsDone(conn) <=> conn.state \in { "Disconnected", "Failed" }
    /\ ConnIsConnected(conn) <=> conn.state = "Connected"

\* C26 amended: isDone is true of a TCPConnection exactly when its state is
\* Connected, Disconnected or Failed, that is when no transition is under
\* way, and isConnected exactly when it is Connected; so isConnected implies
\* isDone, and a connection that is done and not connected is Disconnected
\* or Failed.
C26_DoneIsSettled ==
    /\ conn.state \in { "Connecting", "Authorizing", "Connected", "Disconnecting",
                        "Failing", "Disconnected", "Failed" }
    /\ ConnIsDone(conn) <=> conn.state \in { "Connected", "Disconnected", "Failed" }
    /\ ConnIsConnected(conn) <=> conn.state = "Connected"
    /\ ConnIsConnected(conn) => ConnIsDone(conn)
    /\ ConnIsDone(conn) /\ ~ ConnIsConnected(conn) <=> conn.state \in { "Disconnected", "Failed" }

\* a connection that was authorized: Connected, and done
C26_Witness ==
    /\ conn.state = "Connected"
    /\ conn.auth
    /\ conn.toAuth # << >>
    /\ ConnIsDone(conn)
    /\ ConnIsConnected(conn)

\* C27: a socket that is Failing stays Failing until it is Failed: no
\* close, whatever its isOK, and no transport event, write or timer takes
\* it to another state.
C27_FailingEndsFailed ==
    [][ sock.state = "Failing" => sock'.state \in { "Failing", "Failed" } ]_vars

\* C28: once connect has replaced the socket, no state change, data
\* arrival or pending read of the socket it replaced changes the state or
\* the reason of the TCPConnection or has a state callback or a read
\* callback of the connection called.
C28_OnlyNewestSocketDrives ==
    [][ (PreviousSocketChanges \/ PreviousDataArrives \/ PreviousReadTimerFires)
        => /\ conn'.state = conn.state
           /\ conn'.reason = conn.reason
           /\ conn'.calls = << >>
           /\ conn'.toAuth = conn.toAuth
           /\ conn'.toUser = conn.toUser ]_vars

\* C29: a TCPConnection that is Connected holds a socket that is Connected,
\* whatever the order of socket state changes, disconnect calls and
\* _authDone calls.
C29_ConnectedHasConnectedSocket ==
    conn.state = "Connected" => sock.state = "Connected"

\* C30: on a connected dispatcher a call of executeCmd always returns: the
\* loop that draws command IDs finds an ID that is not a key of cmdDict,
\* for a user command and for a refresh command, however many commands
\* are outstanding.
C30_ExecuteCmdReturns ==
    isConnected => MayExecuteCmd(State, FALSE) /\ MayExecuteCmd(State, TRUE)

====
